---------------------------- MODULE Spec2Model ----------------------------
(***************************************************************************)
(* A model of echo-desktop's trading pipeline.                             *)
(*                                                                         *)
(*   Spec        the WalletMonitor session lifecycle                       *)
(*               (src/electron/services/walletMonitor.ts)                  *)
(*   SpecEngine  the CopyTradingEngine and the holdings ledger             *)
(*               (src/electron/services/stateManager.ts)                   *)
(*   SpecSameMint  the engine under copy trades of one mint                *)
(*   SpecLedger    direct calls of the StateManager                        *)
(*   SpecAnalyzer  the TransactionAnalyzer                                 *)
(*               (src/electron/services/transactionAnalyzer.ts)            *)
(*   SpecEvents  the log notifications of a started session                *)
(*   SpecStop    the log notifications around stopMonitoring               *)
(*   SpecRestart the log notifications around a further start or stop     *)
(*   SpecPipeline  the notifications with the copy trades they start       *)
(*                                                                         *)
(* The program runs on one JavaScript thread.  An action of the model is   *)
(* one turn of a call: the code from one await of an external operation    *)
(* (an RPC, an HTTP request, a file write) to the next one.  An await of   *)
(* an async function that finishes without external I/O only yields to     *)
(* the microtask queue, where no other call can be waiting, so it belongs  *)
(* to the same turn.                                                       *)
(*                                                                         *)
(* Text (an address list, a key, an amount) is a sequence of one-character *)
(* strings.                                                                *)
(***************************************************************************)
EXTENDS Integers, Sequences, FiniteSets, TLC

VARIABLES
    \* ---- WalletMonitor fields (walletMonitor.ts:14-17)
    connection,        \* 0 = null, else the id of the Connection object
    subscriptionIds,   \* the Map's entry list, in insertion order
    isRunning,
    monitoredWallets,
    \* ---- WalletMonitor fields (walletMonitor.ts:21-23)
    transactionAnalyzer, \* 0 = null, else the id of the TransactionAnalyzer
    copyTradingEngine,   \* 0 = null, else the Connection of the engine
    sessionConfig,       \* this.config: Nil = null, else a ConfigData
    tokenCaches,         \* per TransactionAnalyzer constructed: its Map
    \* ---- the RPC layer behind Connection
    rpcOpen,           \* log subscriptions that are open
    rpcNextId,         \* per Connection object: its next subscription id
    \* ---- calls of startMonitoring / stopMonitoring
    calls,             \* the calls that are suspended at an await
    ncalls,            \* calls invoked so far
    faults,            \* external operations that have failed so far
    done               \* the call that returned in the last turn, or Nil

monitorVars == <<connection, subscriptionIds, isRunning, monitoredWallets,
                 transactionAnalyzer, copyTradingEngine, sessionConfig,
                 tokenCaches, rpcOpen, rpcNextId, calls, ncalls, faults, done>>

VARIABLES
    \* ---- StateManager (stateManager.ts:9-10)
    holdings,          \* the in-memory Map: token mint -> BotHolding
    ledgerFile,        \* the content of echo-bot-holdings.json
    \* ---- calls of CopyTradingEngine.processCopyTrade
    trades,            \* the calls that are suspended at an await
    ntrades,           \* calls invoked so far
    tradeFaults,       \* external operations that have failed so far
    tradeDone          \* the call that returned in the last turn, or Nil

engineVars == <<holdings, ledgerFile, trades, ntrades, tradeFaults, tradeDone>>

VARIABLES
    \* ---- direct calls of StateManager.loadHoldings, addOrUpdateHolding
    \* ---- and removeHolding
    ops,               \* the calls that are suspended at an await
    nops,              \* calls invoked so far
    opFaults,          \* file operations that have failed so far
    opDone,            \* the call that returned in the last turn, or Nil
    \* ---- history
    bought,            \* per mint: what was added since its entry was made
    writes             \* file writes: one completed, one failed; and
                       \* loadHoldings replaced the Map after a first write

ledgerVars == <<ops, nops, opFaults, opDone, bought, writes>>

VARIABLES
    \* ---- TransactionAnalyzer (transactionAnalyzer.ts:13-14)
    tokenCache,        \* the Map: mint -> TokenInfo
    \* ---- calls of TransactionAnalyzer.analyzeTransaction
    analyses,          \* the calls that are suspended at an await
    nanalyses,         \* calls invoked so far
    lookupFaults,      \* getMint requests that have failed so far
    analysisDone,      \* the call that returned in the last turn, or Nil
    \* ---- history
    firstInfo          \* per mint: what the first lookup that returned gave

analyzerVars == <<tokenCache, analyses, nanalyses, lookupFaults, analysisDone,
                  firstInfo>>

VARIABLES
    \* ---- calls of WalletMonitor.handleLogEvent (walletMonitor.ts:138)
    units,             \* the calls that are suspended at an await
    nunits,            \* notifications delivered so far
    unitFaults,        \* getParsedTransaction requests that have failed
    unitDone,          \* the call that returned in the last turn, or Nil
    \* ---- the callbacks set by the main process (index.ts:234-253)
    emitted            \* what was handed to them, in order

eventVars == <<units, nunits, unitFaults, unitDone, emitted>>

vars == <<monitorVars, engineVars, ledgerVars, analyzerVars, eventVars>>

-----------------------------------------------------------------------------
(* Bounds and inputs *)

MaxCalls == 2
\* external operations (getVersion, onLogs, removeOnLogsListener) that fail
MaxFaults == 2

Nil == [id |-> 0]

\* The address lists handed to startMonitoring.
CsvInputs ==
    { <<" ">>,                      \* blank
      <<"a", ",", " ", "b">>,       \* two well-formed addresses
      <<"a", ",", "!">>,            \* a well-formed and a malformed one
      <<"a", ",", ",", "a">>,       \* an empty entry and a repeated address
      <<"!">> }                     \* nothing well-formed

\* The texts that new PublicKey(text) accepts.
PublicKeys == { <<"a">>, <<"b">> }

\* copyTradeAmountSol is the fraction num/den of one SOL
ConfigData(key, num, den) ==
    [botWalletPrivateKey |-> key,
     copyTradeAmountSol |-> [num |-> num, den |-> den],
     slippagePercentage |-> 30]

\* The configuration handed to startMonitoring: undefined when there is
\* no configuration file (index.ts:270-279)
StartConfigs == { Nil, ConfigData(<<"k">>, 1, 10) }

\* a token cache without entries
NoInfo == [mint |-> ""]
EmptyCache == [m \in {} |-> NoInfo]

-----------------------------------------------------------------------------
(* Text helpers *)

Range(s) == { s[i] : i \in 1..Len(s) }

IsSpace(ch) == ch = " "

RECURSIVE TrimLeft(_)
TrimLeft(s) ==
    IF s # <<>> /\ IsSpace(Head(s)) THEN TrimLeft(Tail(s)) ELSE s

RECURSIVE TrimRight(_)
TrimRight(s) ==
    IF s # <<>> /\ IsSpace(s[Len(s)])
    THEN TrimRight(SubSeq(s, 1, Len(s) - 1)) ELSE s

\* String.prototype.trim
Trim(s) == TrimRight(TrimLeft(s))

\* String.prototype.split(sep): the pieces between the separators
RECURSIVE SplitAcc(_, _, _)
SplitAcc(s, sep, cur) ==
    IF s = <<>> THEN <<cur>>
    ELSE IF Head(s) = sep THEN <<cur>> \o SplitAcc(Tail(s), sep, <<>>)
    ELSE SplitAcc(Tail(s), sep, Append(cur, Head(s)))

Split(s, sep) == SplitAcc(s, sep, <<>>)

\* Array.prototype.filter with the predicate "length > 0"
RECURSIVE NonEmptyOnly(_)
NonEmptyOnly(xs) ==
    IF xs = <<>> THEN <<>>
    ELSE IF Len(Head(xs)) > 0 THEN <<Head(xs)>> \o NonEmptyOnly(Tail(xs))
    ELSE NonEmptyOnly(Tail(xs))

-----------------------------------------------------------------------------
(* WalletMonitor: pure helpers *)

parseWalletAddresses(addressesString) ==
    IF addressesString = <<>> \/ Trim(addressesString) = <<>>
    THEN <<>>
    ELSE LET parts == Split(addressesString, ",")
         IN  NonEmptyOnly([i \in 1..Len(parts) |-> Trim(parts[i])])

validateWalletAddress(address) == address \in PublicKeys

\* ---- the Map<string, number>: a list of entries; clear() empties the
\* entries in place, so that a running iterator keeps its position and
\* still sees what is appended later (ECMAScript Map semantics).
EmptyEntry == [key |-> <<>>, value |-> -1, live |-> FALSE]

MapLive(m) == { i \in 1..Len(m) : m[i].live }
MapSize(m) == Cardinality(MapLive(m))
MapKeys(m) == { m[i].key : i \in MapLive(m) }
MapValues(m) == { m[i].value : i \in MapLive(m) }
MapClear(m) == [i \in 1..Len(m) |-> EmptyEntry]
MapSet(m, k, v) ==
    IF \E i \in MapLive(m) : m[i].key = k
    THEN [i \in 1..Len(m) |->
            IF m[i].live /\ m[i].key = k THEN [m[i] EXCEPT !.value = v]
            ELSE m[i]]
    ELSE Append(m, [key |-> k, value |-> v, live |-> TRUE])
\* the first live entry at or after position i, or 0
MapNext(m, i) ==
    IF \E j \in MapLive(m) : j >= i
    THEN CHOOSE j \in MapLive(m) : j >= i /\ \A k \in MapLive(m) : k >= i => j <= k
    ELSE 0


-----------------------------------------------------------------------------
(* WalletMonitor: the operations.  They transform a record s that holds   *)
(* the monitor's fields, the RPC layer and the record of the running call *)
(* (s.call); an action commits the record a turn ends with.               *)

getStatus ==
    [isRunning |-> isRunning,
     monitoredWallets |-> monitoredWallets,
     connectionStatus |-> IF connection # 0 THEN "connected" ELSE "disconnected",
     subscriptionIds |-> MapValues(subscriptionIds)]

This(c) ==
    [connection |-> connection, subscriptionIds |-> subscriptionIds,
     isRunning |-> isRunning, monitoredWallets |-> monitoredWallets,
     transactionAnalyzer |-> transactionAnalyzer,
     copyTradingEngine |-> copyTradingEngine,
     sessionConfig |-> sessionConfig, tokenCaches |-> tokenCaches,
     rpcOpen |-> rpcOpen, rpcNextId |-> rpcNextId, call |-> c]

\* The record of a call.  phase tells which stopMonitoring call a start is
\* in: "pre" (line 317) or "cleanup" (line 380); a stop is at "top".
NewCall(op, phase, csv) ==
    [id |-> ncalls + 1, op |-> op, phase |-> phase, pc |-> "run",
     csv |-> csv, addrs |-> <<>>, it |-> 0, conn |-> 0, sub |-> -1,
     config |-> Nil,            \* the config argument; Nil = undefined
     raised |-> FALSE,          \* an exception is propagating
     events |-> <<>>,           \* what it handed to the error callback
     result |-> "none",         \* "returned" or "threw"
     \* bookkeeping for the properties
     failure |-> "none",        \* why a start failed
     before |-> getStatus,      \* the status when it was invoked
     attempted |-> <<>>,        \* its unsubscribe attempts, in order
     overlapped |-> calls # {}, \* another call was in progress meanwhile
     \* the calls made since no call was in progress, this one included
     period |-> (IF calls = {} THEN <<>> ELSE (CHOOSE c \in calls : TRUE).period)
                  \o <<[id |-> ncalls + 1, op |-> op, csv |-> csv]>>,
     afterStop |-> done # Nil /\ done.op = "stop"]

\* handleError: the error goes to the error callback
handleError(s, type) ==
    [s EXCEPT !.call.events = Append(@, type)]

\* subscribeToWallet(this.connection, address); onLogsThrows: the
\* connection.onLogs call raises.  subscriptionId -1 stands for null.
subscribeToWallet(s, address, onLogsThrows) ==
    IF validateWalletAddress(address) /\ s.connection # 0 /\ ~onLogsThrows
    THEN LET id == s.rpcNextId[s.connection]
         IN  [s |-> [s EXCEPT
                       !.rpcOpen = @ \cup {[conn |-> s.connection, id |-> id,
                                            address |-> address,
                                            by |-> s.call.id, failed |-> FALSE]},
                       !.rpcNextId[s.connection] = id + 1],
              subscriptionId |-> id]
    ELSE [s |-> handleError(s, "subscription"), subscriptionId |-> -1]

\* the for loop of startMonitoring
RECURSIVE SubscribeEach(_, _, _)
SubscribeEach(s, i, throws) ==
    IF i > Len(s.call.addrs) THEN s
    ELSE LET address == s.call.addrs[i]
             r == subscribeToWallet(s, address, i \in throws)
             s1 == IF r.subscriptionId # -1
                   THEN [r.s EXCEPT !.subscriptionIds =
                                       MapSet(@, address, r.subscriptionId)]
                   ELSE r.s
         IN  SubscribeEach(s1, i + 1, throws)

\* unsubscribeFromWallet once removeOnLogsListener has settled: with ok
\* the subscription is closed, otherwise the subscription stays open and
\* the failure is caught and logged.  conn = 0 is the null connection,
\* on which the request raises at once.
\* A variant that lets the failure reach the caller; the code is
\* unsubscribeFromWallet below.
UnsubscribePropagates(s, conn, subscriptionId, ok) ==
    LET hit(x) == x.conn = conn /\ x.id = subscriptionId
    IN  [s EXCEPT
          !.rpcOpen = IF ok THEN { x \in @ : ~hit(x) }
                      ELSE { IF hit(x) THEN [x EXCEPT !.failed = TRUE] ELSE x
                             : x \in @ },
          !.call.attempted = Append(@, [id |-> subscriptionId, ok |-> ok]),
          !.call.raised = ~ok]

unsubscribeFromWallet(s, conn, subscriptionId, ok) ==
    LET hit(x) == x.conn = conn /\ x.id = subscriptionId
    IN  [s EXCEPT
          !.rpcOpen = IF ok THEN { x \in @ : ~hit(x) }
                      ELSE { IF hit(x) THEN [x EXCEPT !.failed = TRUE] ELSE x
                             : x \in @ },
          !.call.attempted = Append(@, [id |-> subscriptionId, ok |-> ok]),
          !.call.raised = FALSE]

\* "Clean up state" of stopMonitoring
\* A variant that leaves monitoredWallets alone; the code is StopCleanup
\* below.
StopKeepsWallets(s) ==
    [s EXCEPT !.subscriptionIds = MapClear(@),
              !.connection = 0,
              !.transactionAnalyzer = 0,
              !.copyTradingEngine = 0,
              !.sessionConfig = Nil,
              !.isRunning = FALSE,
              !.call.pc = "stopped"]

StopCleanup(s) ==
    [s EXCEPT !.subscriptionIds = MapClear(@),
              !.monitoredWallets = <<>>,
              !.connection = 0,
              !.transactionAnalyzer = 0,
              !.copyTradingEngine = 0,
              !.sessionConfig = Nil,
              !.isRunning = FALSE,
              !.call.pc = "stopped"]

\* the catch block of stopMonitoring
StopCatch(s) ==
    [handleError(s, "unknown") EXCEPT !.call.raised = FALSE,
                                      !.call.pc = "stopped"]

\* The for-of loop of stopMonitoring, from the iterator's position up to
\* the next removeOnLogsListener request or to the end of the function.
RECURSIVE StopLoop(_)
StopLoop(s) ==
    LET j == MapNext(s.subscriptionIds, s.call.it)
    IN  IF s.call.raised THEN StopCatch(s)
        ELSE IF j = 0 THEN StopCleanup(s)
        ELSE IF s.connection = 0
        THEN StopLoop(unsubscribeFromWallet(
                 [s EXCEPT !.call.it = j + 1], 0,
                 s.subscriptionIds[j].value, FALSE))
        ELSE [s EXCEPT !.call.it = j + 1,
                       !.call.conn = s.connection,
                       !.call.sub = s.subscriptionIds[j].value,
                       !.call.pc = "unsub"]

stopMonitoring(s) ==
    IF s.connection # 0 /\ MapSize(s.subscriptionIds) > 0
    THEN StopLoop([s EXCEPT !.call.it = 1])
    ELSE StopCleanup(s)

Return(s, result) ==
    [s EXCEPT !.call.pc = "done", !.call.result = result]

Fail(s, why) ==
    [s EXCEPT !.call.pc = "fail", !.call.failure = why]

\* startMonitoring from "Parse wallet addresses" to the getVersion request
StartBody(s) ==
    LET walletAddresses == parseWalletAddresses(s.call.csv)
    IN  IF Len(walletAddresses) = 0
        THEN Fail(s, "no addresses")
        ELSE [s EXCEPT !.connection = Len(s.rpcNextId) + 1,
                       !.rpcNextId = Append(@, 0),
                       !.call.addrs = walletAddresses,
                       !.call.pc = "version"]

\* "Initialize transaction analyzer" and "Store config and initialize
\* copy trading engine if provided"
StartEngines(s) ==
    LET s1 == [s EXCEPT !.tokenCaches = Append(@, EmptyCache),
                        !.transactionAnalyzer = Len(s.tokenCaches) + 1]
    IN  IF s.call.config # Nil
        THEN [s1 EXCEPT !.sessionConfig = s.call.config,
                        !.copyTradingEngine = s.connection]
        ELSE s1

\* startMonitoring after getVersion has settled
\* A variant without the size check; the code is StartSubscribe below.
StartMarksRunningAnyway(s, versionOk, throws) ==
    IF ~versionOk THEN Fail(s, "connection test")
    ELSE LET s1 == [StartEngines(s) EXCEPT
                             !.monitoredWallets = s.call.addrs,
                             !.subscriptionIds = MapClear(@)]
             s2 == SubscribeEach(s1, 1, throws)
         IN  Return([s2 EXCEPT !.isRunning = TRUE], "returned")

StartSubscribe(s, versionOk, throws) ==
    IF ~versionOk THEN Fail(s, "connection test")
    ELSE LET s1 == [StartEngines(s) EXCEPT
                             !.monitoredWallets = s.call.addrs,
                             !.subscriptionIds = MapClear(@)]
             s2 == SubscribeEach(s1, 1, throws)
         IN  IF MapSize(s2.subscriptionIds) = 0
             THEN Fail(s2, "no subscription")
             ELSE Return([s2 EXCEPT !.isRunning = TRUE], "returned")

\* the catch block of startMonitoring up to its stopMonitoring call
\* A variant that rethrows without stopMonitoring; the code is StartCatch
\* below.
StartCatchWithoutCleanup(s) ==
    [handleError(s, "connection") EXCEPT !.call.phase = "cleanup",
                                         !.call.pc = "stopped"]

StartCatch(s) ==
    stopMonitoring([handleError(s, "connection") EXCEPT !.call.phase = "cleanup"])

\* What follows in the same turn once a piece of code has run: the
\* caller of a finished stopMonitoring goes on, a failed start enters its
\* catch block; a call at an await ("unsub", "version") or at its end stays.
RECURSIVE Continue(_)
Continue(s) ==
    CASE s.call.pc = "stopped" /\ s.call.phase = "top" ->
            Return(s, "returned")
      [] s.call.pc = "stopped" /\ s.call.phase = "pre" ->
            Continue(StartBody(s))
      [] s.call.pc = "stopped" /\ s.call.phase = "cleanup" ->
            Return(s, "threw")
      [] s.call.pc = "fail" ->
            Continue(StartCatch(s))
      [] OTHER -> s

startMonitoring(s) ==
    IF s.isRunning
    THEN Continue(stopMonitoring([s EXCEPT !.call.phase = "pre"]))
    ELSE Continue(StartBody(s))

-----------------------------------------------------------------------------
(* WalletMonitor: the turns *)

\* the end of a turn that left the record s, the other suspended calls
\* being others
Commit(others, s) ==
    /\ connection' = s.connection
    /\ subscriptionIds' = s.subscriptionIds
    /\ isRunning' = s.isRunning
    /\ monitoredWallets' = s.monitoredWallets
    /\ transactionAnalyzer' = s.transactionAnalyzer
    /\ copyTradingEngine' = s.copyTradingEngine
    /\ sessionConfig' = s.sessionConfig
    /\ tokenCaches' = s.tokenCaches
    /\ rpcOpen' = s.rpcOpen
    /\ rpcNextId' = s.rpcNextId
    /\ IF s.call.pc = "done"
       THEN /\ calls' = others
            /\ done' = s.call
       ELSE /\ calls' = others \cup {s.call}
            /\ done' = Nil
    /\ UNCHANGED <<engineVars, ledgerVars, analyzerVars, eventVars>>

Overlap(op, csv) ==
    { [c EXCEPT !.overlapped = TRUE,
                !.period = Append(@, [id |-> ncalls + 1, op |-> op, csv |-> csv])]
      : c \in calls }

StartMonitoringCall ==
    /\ ncalls < MaxCalls
    /\ \E csv \in CsvInputs, config \in StartConfigs :
          Commit(Overlap("start", csv), startMonitoring(This(
              [NewCall("start", "body", csv) EXCEPT !.config = config])))
    /\ ncalls' = ncalls + 1
    /\ UNCHANGED faults

StopMonitoringCall ==
    /\ ncalls < MaxCalls
    /\ Commit(Overlap("stop", <<>>), Continue(stopMonitoring(This(NewCall("stop", "top", <<>>)))))
    /\ ncalls' = ncalls + 1
    /\ UNCHANGED faults

\* getVersion settles for a start call
GetVersionSettles ==
    \E c \in calls :
       /\ c.pc = "version"
       /\ \E versionOk \in BOOLEAN, throws \in SUBSET (1..Len(c.addrs)) :
             /\ (~versionOk => throws = {})
             /\ faults' = faults + (IF versionOk THEN Cardinality(throws) ELSE 1)
             /\ faults' <= MaxFaults
             /\ Commit(calls \ {c},
                       Continue(StartSubscribe(This(c), versionOk, throws)))
       /\ UNCHANGED ncalls

\* removeOnLogsListener settles for a call inside stopMonitoring
RemoveListenerSettles ==
    \E c \in calls :
       /\ c.pc = "unsub"
       /\ \E ok \in BOOLEAN :
             /\ faults' = faults + (IF ok THEN 0 ELSE 1)
             /\ faults' <= MaxFaults
             /\ Commit(calls \ {c},
                       Continue(StopLoop(
                           unsubscribeFromWallet(This(c), c.conn, c.sub, ok))))
       /\ UNCHANGED ncalls

\* The state in which startMonitoring(csv, config) leaves the monitor
\* when it is the first call, getVersion succeeds and no onLogs raises.
SessionInit(csv, config) ==
    LET call == [id |-> 1, op |-> "start", phase |-> "body", pc |-> "run",
                 csv |-> csv, addrs |-> <<>>, it |-> 0, conn |-> 0, sub |-> -1,
                 config |-> config, raised |-> FALSE, events |-> <<>>,
                 result |-> "none", failure |-> "none",
                 before |-> [isRunning |-> FALSE, monitoredWallets |-> <<>>,
                             connectionStatus |-> "disconnected",
                             subscriptionIds |-> {}],
                 attempted |-> <<>>, overlapped |-> FALSE,
                 period |-> <<[id |-> 1, op |-> "start", csv |-> csv]>>,
                 afterStop |-> FALSE]
        s0 == [connection |-> 0, subscriptionIds |-> <<>>,
               isRunning |-> FALSE, monitoredWallets |-> <<>>,
               transactionAnalyzer |-> 0, copyTradingEngine |-> 0,
               sessionConfig |-> Nil, tokenCaches |-> <<>>,
               rpcOpen |-> {}, rpcNextId |-> <<>>, call |-> call]
        s == Continue(StartSubscribe(startMonitoring(s0), TRUE, {}))
    IN  /\ connection = s.connection
        /\ subscriptionIds = s.subscriptionIds
        /\ isRunning = s.isRunning
        /\ monitoredWallets = s.monitoredWallets
        /\ transactionAnalyzer = s.transactionAnalyzer
        /\ copyTradingEngine = s.copyTradingEngine
        /\ sessionConfig = s.sessionConfig
        /\ tokenCaches = s.tokenCaches
        /\ rpcOpen = s.rpcOpen
        /\ rpcNextId = s.rpcNextId
        /\ calls = {}
        /\ ncalls = 1
        /\ faults = 0
        /\ done = s.call

MonitorInit ==
    /\ connection = 0
    /\ subscriptionIds = <<>>
    /\ isRunning = FALSE
    /\ monitoredWallets = <<>>
    /\ transactionAnalyzer = 0
    /\ copyTradingEngine = 0
    /\ sessionConfig = Nil
    /\ tokenCaches = <<>>
    /\ rpcOpen = {}
    /\ rpcNextId = <<>>
    /\ calls = {}
    /\ ncalls = 0
    /\ faults = 0
    /\ done = Nil



-----------------------------------------------------------------------------
(* Properties of the session lifecycle (specification Spec).  done is the *)
(* call that returned in the last turn: a property of the form            *)
(* "Returned(op) => P" says that P holds at the moment such a call        *)
(* returns.                                                               *)

Returned(op) == done # Nil /\ done.op = op

Stopped ==
    [isRunning |-> FALSE, monitoredWallets |-> <<>>,
     connectionStatus |-> "disconnected", subscriptionIds |-> {}]

\* C1: when a startMonitoring call has returned successfully, every log
\* subscription opened by an earlier startMonitoring call has been
\* unsubscribed (here: an unsubscribe request was at least made for it).
C1_EarlierSessionTornDown ==
    (Returned("start") /\ done.result = "returned") =>
        \A x \in rpcOpen : x.by < done.id => x.failed

\* the parsed list has well-formed and malformed entries
Mixed(csv) ==
    LET as == Range(parseWalletAddresses(csv))
    IN  (\E a \in as : validateWalletAddress(a))
        /\ (\E a \in as : ~validateWalletAddress(a))

\* C2: after a successful startMonitoring on a list that mixes well-formed
\* and malformed entries, getStatus().monitoredWallets is exactly the set
\* of addresses whose subscription succeeded.
C2_MonitoredWalletsAreSubscribed ==
    (Returned("start") /\ done.result = "returned" /\ Mixed(done.csv)) =>
        Range(getStatus.monitoredWallets) = MapKeys(subscriptionIds)

C4_FailedStartCleansUp ==
    (Returned("start") /\ done.failure # "none") =>
        /\ done.result = "threw"
        /\ done.events # <<>> /\ done.events[Len(done.events)] = "connection"
        /\ \A x \in rpcOpen : x.by # done.id
        /\ getStatus = Stopped

C4_Witness ==
    /\ Returned("start") /\ done.failure = "no subscription"
    /\ done.before.isRunning

\* C5: running=true implies that subscriptionIds holds a handle and that
\* a connection is held.
C5_RunningHasSubscription ==
    isRunning => (MapSize(subscriptionIds) >= 1 /\ connection # 0)

C5_Witness ==
    isRunning /\ Returned("start")

\* C6: stopMonitoring attempts every tracked handle even when unsubscribe
\* calls fail: a stopMonitoring call that no other call overlaps has made
\* an unsubscribe request for every handle held when it was called,
\* raises nothing, emits no error event and leaves the stopped status.
C6_StopBestEffort ==
    Returned("stop") =>
        /\ done.result = "returned" /\ done.events = <<>>
        /\ ~done.overlapped =>
              done.before.subscriptionIds
                 \subseteq { done.attempted[i].id : i \in 1..Len(done.attempted) }
        /\ isRunning = FALSE /\ monitoredWallets = <<>>
        /\ MapSize(subscriptionIds) = 0 /\ connection = 0

\* a stop whose first unsubscribe failed and that went on to the next
C6_Witness ==
    /\ Returned("stop") /\ ~done.overlapped
    /\ Len(done.attempted) >= 2
    /\ ~done.attempted[1].ok

-----------------------------------------------------------------------------
(* Numbers as text *)

DigitChars == <<"0", "1", "2", "3", "4", "5", "6", "7", "8", "9">>

IsDigit(ch) == \E d \in 1..Len(DigitChars) : DigitChars[d] = ch
DigitValue(ch) == (CHOOSE d \in 1..Len(DigitChars) : DigitChars[d] = ch) - 1

RECURSIVE DigitsValue(_)
DigitsValue(s) ==
    IF s = <<>> THEN 0
    ELSE DigitsValue(SubSeq(s, 1, Len(s) - 1)) * Len(DigitChars)
           + DigitValue(s[Len(s)])

IsDigits(s) == s # <<>> /\ \A i \in 1..Len(s) : IsDigit(s[i])

\* BigInt(text): white space around the number is ignored, blank text is
\* 0n, a sign may lead, anything else is a SyntaxError (ok = FALSE).
BigInt(text) ==
    LET s == Trim(text)
    IN  IF s = <<>> THEN [ok |-> TRUE, value |-> 0]
        ELSE IF IsDigits(s) THEN [ok |-> TRUE, value |-> DigitsValue(s)]
        ELSE IF Head(s) = "-" /\ IsDigits(Tail(s))
        THEN [ok |-> TRUE, value |-> 0 - DigitsValue(Tail(s))]
        ELSE IF Head(s) = "+" /\ IsDigits(Tail(s))
        THEN [ok |-> TRUE, value |-> DigitsValue(Tail(s))]
        ELSE [ok |-> FALSE, value |-> 0]

RECURSIVE NatToString(_)
NatToString(n) ==
    IF n < Len(DigitChars) THEN <<DigitChars[n + 1]>>
    ELSE Append(NatToString(n \div Len(DigitChars)),
                DigitChars[(n % Len(DigitChars)) + 1])

\* BigInt.prototype.toString and Number.prototype.toString of an integer
IntToString(n) == IF n < 0 THEN <<"-">> \o NatToString(0 - n) ELSE NatToString(n)

-----------------------------------------------------------------------------
(* CopyTradingEngine and StateManager: inputs *)

MaxTrades == 2
\* external operations of the engine (quote, swap, broadcast, confirmation,
\* balance query, file write) that fail, and malformed quote amounts
MaxTradeFaults == 1
\* calls of processCopyTrade in SpecSameMint
MaxSameMintTrades == 3

LAMPORTS_PER_SOL == 1000000000

WSOL_MINT == "So11111111111111111111111111111111111111112"

NoTrade == [id |-> 0]
NoSignature == 0
EmptyLedger == [m \in {} |-> 0]
\* the ledger file: absent, or the JSON text of a ledger
NoFile == [exists |-> FALSE]
File(h) == [exists |-> TRUE, text |-> "json", holdings |-> h]
\* a file whose text is no JSON object: "blank" (empty or white space),
\* "garbage" (JSON.parse raises), "null" (the JSON text null)
TextFile(text) == [exists |-> TRUE, text |-> text, holdings |-> EmptyLedger]

TokenInfo(mint) == [mint |-> mint, symbol |-> "TOK", decimals |-> 6]

DetectedTrade(type, mint, tokenAmount, currencyAmount) ==
    [type |-> type, tokenInfo |-> TokenInfo(mint), tokenMint |-> mint,
     tokenAmount |-> tokenAmount, currencyAmount |-> currencyAmount,
     originalTxSignature |-> "tx", monitoredWallet |-> "w"]

\* the detected trades handed to processCopyTrade
TradeInputs ==
    { DetectedTrade("buy", "M1", 5, 1),
      DetectedTrade("sell", "M1", 5, 1),
      DetectedTrade("swap", "M1", 5, 1),
      DetectedTrade("buy", "M1", 0, 1),
      DetectedTrade("sell", "M1", 5, -1) }

ConfigInputs ==
    { ConfigData(<<"k">>, 1, 10),
      ConfigData(<<"7", ",", "7">>, 1, 10),
      ConfigData(<<" ">>, 1, 10),
      ConfigData(<<>>, 1, 10),
      ConfigData(<<"[", "k">>, 1, 10),
      ConfigData(<<"0">>, 1, 10),
      ConfigData(<<"k">>, 0, 1) }

\* The key texts from which a key pair can be built, per encoding: the
\* JSON array, the comma-separated list, base58.
JsonKeys == { <<"[", "7", "]">> }
CommaKeys == { <<"7", ",", "7">> }
Base58Keys == { <<"k">> }

\* what the quote service answers (besides nothing)
QuoteInputs == { [outAmount |-> <<"7">>], [outAmount |-> <<"1", ".", "5">>] }

\* how confirmTransaction settles: it resolves with value.err null
\* ("ok"), resolves with value.err set because the transaction failed on
\* the chain ("err"), or rejects (time-out, expiry, RPC error)
ConfirmInputs == { "ok", "err", "rejected" }

\* what the chain reports as the bot's token balance
\* A token amount on the chain is an unsigned 64-bit integer (a bigint in
\* the program).  U64(hi, lo) stands for hi * 2^53 + lo, with lo far
\* below 2^53: amounts a double holds exactly (hi = 0) and amounts just
\* above 2^53 (hi = 1).
U64(hi, lo) == [hi |-> hi, lo |-> lo]

NoAmount == U64(0, -1)

\* Number(bigint): the nearest double, ties to the even mantissa.  From
\* 2^53 to 2^54 the doubles are the even integers, and 2^53 + lo has the
\* mantissa 2^52 + lo/2.
Number(amount) ==
    IF amount.hi = 0 \/ amount.lo % 2 = 0 THEN amount
    ELSE IF ((amount.lo - 1) \div 2) % 2 = 0
         THEN U64(amount.hi, amount.lo - 1)
         ELSE U64(amount.hi, amount.lo + 1)

BalanceInputs == { U64(0, 0), U64(0, 3), U64(1, 3) }

Holding(mint, amount, spent, sig, wallet, symbol, decimals) ==
    [tokenMint |-> mint, amountLamports |-> amount,
     solSpentLamports |-> spent, buyTxSignature |-> sig,
     monitoredWallet |-> wallet, tokenSymbol |-> symbol,
     tokenDecimals |-> decimals,
     timestamp |-> 0]   \* Date.now(): no modelled code reads its value

\* the ledger file the process may find when it starts
LedgerFileInputs ==
    { NoFile,
      File([m \in {"M2"} |-> Holding("M2", <<"4">>, <<"2">>, 99, "w", "TOK", 6)]) }

-----------------------------------------------------------------------------
(* StateManager *)

getHolding(h, tokenMint) ==
    IF tokenMint \in DOMAIN h THEN h[tokenMint] ELSE NoTrade

HoldingsSet(h, k, v) ==
    [m \in DOMAIN h \cup {k} |-> IF m = k THEN v ELSE h[m]]

HoldingsDelete(h, k) == [m \in DOMAIN h \ {k} |-> h[m]]

\* A variant of addOrUpdateHolding that stores the incoming amounts over
\* the existing ones; the code is addOrUpdateHolding below.
addOrUpdateHoldingOverwrites(h, tokenMint, amountBoughtLamports, solSpentLamports, buyTxSignature, monitoredWallet, tokenSymbol, tokenDecimals) ==
    [ok |-> TRUE,
     holdings |-> HoldingsSet(h, tokenMint,
        Holding(tokenMint, amountBoughtLamports, solSpentLamports,
                buyTxSignature, monitoredWallet, tokenSymbol, tokenDecimals))]

\* addOrUpdateHolding up to its saveHoldings call.  ok = FALSE: BigInt
\* raised on an amount that is no integer, and the Map is untouched.
addOrUpdateHolding(h, tokenMint, amountBoughtLamports, solSpentLamports, buyTxSignature, monitoredWallet, tokenSymbol, tokenDecimals) ==
    IF tokenMint \in DOMAIN h
    THEN LET existingHolding == h[tokenMint]
             a1 == BigInt(existingHolding.amountLamports)
             a2 == BigInt(amountBoughtLamports)
             s1 == BigInt(existingHolding.solSpentLamports)
             s2 == BigInt(solSpentLamports)
         IN  IF a1.ok /\ a2.ok /\ s1.ok /\ s2.ok
             THEN [ok |-> TRUE,
                   holdings |-> HoldingsSet(h, tokenMint,
                      [existingHolding EXCEPT
                         !.amountLamports = IntToString(a1.value + a2.value),
                         !.solSpentLamports = IntToString(s1.value + s2.value),
                         !.buyTxSignature = buyTxSignature,
                         !.monitoredWallet = monitoredWallet])]
             ELSE [ok |-> FALSE, holdings |-> h]
    ELSE [ok |-> TRUE,
          holdings |-> HoldingsSet(h, tokenMint,
             Holding(tokenMint, amountBoughtLamports, solSpentLamports,
                     buyTxSignature, monitoredWallet, tokenSymbol,
                     tokenDecimals))]

-----------------------------------------------------------------------------
(* CopyTradingEngine: the operations.  They transform a record e that     *)
(* holds the ledger, the ledger file and the record of the running call   *)
(* (e.task).                                                              *)

Engine(task) == [holdings |-> holdings, ledgerFile |-> ledgerFile, task |-> task]

NewTrade(detectedTrade, config) ==
    [id |-> ntrades + 1, detectedTrade |-> detectedTrade, config |-> config,
     pc |-> "run",
     unit |-> 0,                 \* the handleLogEvent call it is made by, if any
     quote |-> NoTrade,          \* the quote received
     quoteAmount |-> NoAmount,   \* the amount the quote was asked for
     tokenBalanceRaw |-> NoAmount,
     balance |-> NoAmount,       \* what the chain reported as the balance
     signature |-> NoSignature,  \* what sendTransaction returned
     snapshot |-> NoFile,        \* the JSON text being written
     outcome |-> "none",         \* "returned" or "threw"
     result |-> NoTrade,         \* the CopyTradeResult
     \* bookkeeping for the properties
     steps |-> <<>>,             \* the requests and ledger changes it made
     failedAt |-> "none",        \* the external operation that failed
     confirmed |-> FALSE,        \* confirmTransaction has returned
     err |-> FALSE,              \* value.err of what it returned
     ledgerFailure |-> "none",   \* why its ledger update failed
     before |-> holdings,        \* the ledger when it was invoked
     overlapped |-> trades # {}]

Step(e, name) == [e EXCEPT !.task.steps = Append(@, name)]

FailedResult(task, error) ==
    [success |-> FALSE,
     tradeType |-> task.detectedTrade.type,
     tokenMint |-> task.detectedTrade.tokenMint,
     tokenSymbol |-> task.detectedTrade.tokenInfo.symbol,
     amount |-> "0",
     signature |-> NoSignature,
     error |-> error,
     originalTxSignature |-> task.detectedTrade.originalTxSignature,
     monitoredWallet |-> task.detectedTrade.monitoredWallet]

SuccessResult(task, amount) ==
    [success |-> TRUE,
     tradeType |-> task.detectedTrade.type,
     tokenMint |-> task.detectedTrade.tokenMint,
     tokenSymbol |-> task.detectedTrade.tokenInfo.symbol,
     amount |-> amount,
     signature |-> task.signature,
     error |-> <<>>,
     originalTxSignature |-> task.detectedTrade.originalTxSignature,
     monitoredWallet |-> task.detectedTrade.monitoredWallet]

Finish(e, result) ==
    [e EXCEPT !.task.pc = "done", !.task.outcome = "returned",
              !.task.result = result]

\* ---- the catch blocks; an error message is the list of its parts

\* processCopyTrade's catch
ProcessCatch(e, message) ==
    Finish(e, FailedResult(e.task, <<"Copy trade failed">> \o message))

\* the catch of executeBuyTrade and of executeSellTrade
TradeCatch(e, message) ==
    ProcessCatch(e,
        <<IF e.task.detectedTrade.type = "buy"
          THEN "Buy trade execution failed"
          ELSE "Sell trade execution failed">> \o message)

\* the catch of executeTransaction
TransactionCatch(e, message) ==
    TradeCatch(e, <<"Transaction execution failed">> \o message)

Failed(e, at) == [e EXCEPT !.task.failedAt = at]

\* ---- validation and key decoding

\* A variant without the amount checks; the code is validateTrade below.
validateTradeIgnoresAmounts(detectedTrade, config) ==
    IF detectedTrade.type # "buy" /\ detectedTrade.type # "sell"
    THEN [isValid |-> FALSE, error |-> <<"Invalid trade type">>]
    ELSE IF config.botWalletPrivateKey = <<>>
            \/ Trim(config.botWalletPrivateKey) = <<>>
    THEN [isValid |-> FALSE, error |-> <<"Bot wallet private key not configured">>]
    ELSE [isValid |-> TRUE, error |-> <<>>]

validateTrade(detectedTrade, config) ==
    IF detectedTrade.type # "buy" /\ detectedTrade.type # "sell"
    THEN [isValid |-> FALSE, error |-> <<"Invalid trade type">>]
    ELSE IF detectedTrade.tokenAmount <= 0
    THEN [isValid |-> FALSE, error |-> <<"Invalid token amount">>]
    ELSE IF detectedTrade.currencyAmount <= 0
    THEN [isValid |-> FALSE, error |-> <<"Invalid currency amount">>]
    ELSE IF config.botWalletPrivateKey = <<>>
            \/ Trim(config.botWalletPrivateKey) = <<>>
    THEN [isValid |-> FALSE, error |-> <<"Bot wallet private key not configured">>]
    ELSE IF detectedTrade.type = "buy" /\ config.copyTradeAmountSol.num <= 0
    THEN [isValid |-> FALSE, error |-> <<"Copy trade amount must be greater than 0">>]
    ELSE [isValid |-> TRUE, error |-> <<>>]

\* loadBotWallet: TRUE if a key pair comes out, FALSE if it raises
loadBotWallet(privateKey) ==
    IF privateKey # <<>> /\ Head(privateKey) = "["
    THEN privateKey \in JsonKeys
    ELSE IF "," \in Range(privateKey)
    THEN privateKey \in CommaKeys
    ELSE privateKey \in Base58Keys

\* ---- buy

\* Math.floor(config.copyTradeAmountSol * LAMPORTS_PER_SOL)
AmountInLamports(config) ==
    (config.copyTradeAmountSol.num * LAMPORTS_PER_SOL)
        \div config.copyTradeAmountSol.den

\* executeBuyTrade up to the getJupiterQuote request
executeBuyTrade(e) ==
    [Step(e, "quote") EXCEPT !.task.quoteAmount = U64(0, AmountInLamports(e.task.config)),
                             !.task.pc = "quote"]

\* ---- sell

\* A variant without the holding check; the code is executeSellTrade
\* below.
executeSellTradeUnchecked(e) ==
    [Step(e, "balance") EXCEPT !.task.pc = "balance"]

\* executeSellTrade up to the balance request of getTokenBalance
executeSellTrade(e) ==
    IF getHolding(e.holdings, e.task.detectedTrade.tokenMint) = NoTrade
    THEN Finish(e, FailedResult(e.task,
                  <<"No holding found", "Cannot sell token we don't own">>))
    ELSE [Step(e, "balance") EXCEPT !.task.pc = "balance"]

\* getTokenBalance once the account query has settled: the amount as a
\* number, or 0 when the query failed
getTokenBalance(ok, amount) == IF ok THEN Number(amount) ELSE U64(0, 0)

\* executeSellTrade after getTokenBalance
AfterBalance(e, ok, amount) ==
    LET tokenBalanceRaw == getTokenBalance(ok, amount)
        e1 == [e EXCEPT !.task.balance = amount]
    IN  IF tokenBalanceRaw.hi = 0 /\ tokenBalanceRaw.lo <= 0
        THEN TradeCatch(Failed(e1, "balance"), <<"No balance to sell">>)
        ELSE [Step(e1, "quote") EXCEPT !.task.tokenBalanceRaw = tokenBalanceRaw,
                                       !.task.quoteAmount = tokenBalanceRaw,
                                       !.task.pc = "quote"]

\* ---- both

\* getJupiterQuote has answered: a quote or NoTrade (null)
AfterQuote(e, quote) ==
    IF quote = NoTrade
    THEN TradeCatch(Failed(e, "quote"), <<"Failed to get Jupiter quote">>)
    ELSE [Step(e, "swap") EXCEPT !.task.quote = quote, !.task.pc = "swap"]

\* getJupiterSwap has answered (swapOk = FALSE: null); executeTransaction
\* runs up to sendTransaction (deserializes = FALSE: the bytes are no
\* transaction)
AfterSwap(e, swapOk, deserializes) ==
    IF ~swapOk
    THEN TradeCatch(Failed(e, "swap"), <<"Failed to get Jupiter swap transaction">>)
    ELSE IF ~deserializes
    THEN TransactionCatch(Failed(e, "deserialize"), <<"deserialize">>)
    ELSE [Step(e, "send") EXCEPT !.task.pc = "send"]

\* sendTransaction has settled
AfterSend(e, ok) ==
    IF ~ok THEN TransactionCatch(Failed(e, "send"), <<"send">>)
    ELSE [Step(e, "confirm") EXCEPT !.task.signature = e.task.id,
                                    !.task.pc = "confirm"]

\* saveHoldings up to the writeFile request: the JSON text is made now
saveHoldings(e) ==
    [Step(e, "save") EXCEPT !.task.snapshot = File(e.holdings), !.task.pc = "save"]

BuyResult(e) ==
    Finish(e, SuccessResult(e.task, e.task.config.copyTradeAmountSol))

SellResult(e) ==
    Finish(e, SuccessResult(e.task,
        [raw |-> e.task.tokenBalanceRaw,
         decimals |-> e.task.detectedTrade.tokenInfo.decimals]))

TradeResult(e) ==
    IF e.task.detectedTrade.type = "buy" THEN BuyResult(e) ELSE SellResult(e)

\* "Update holdings after successful buy trade"
BuyUpdateHoldings(e) ==
    LET t == e.task
        r == addOrUpdateHolding(e.holdings, t.detectedTrade.tokenMint,
                 t.quote.outAmount, IntToString(t.quoteAmount.lo), t.signature,
                 t.detectedTrade.monitoredWallet,
                 t.detectedTrade.tokenInfo.symbol,
                 t.detectedTrade.tokenInfo.decimals)
    IN  IF r.ok
        THEN saveHoldings(Step([e EXCEPT !.holdings = r.holdings], "merge"))
        ELSE BuyResult([e EXCEPT !.task.ledgerFailure = "merge"])

\* removeHolding up to its saveHoldings call
removeHolding(e) ==
    IF e.task.detectedTrade.tokenMint \in DOMAIN e.holdings
    THEN saveHoldings(Step(
            [e EXCEPT !.holdings =
                HoldingsDelete(@, e.task.detectedTrade.tokenMint)], "remove"))
    ELSE SellResult(e)

\* confirmTransaction has settled; what it resolves to is not looked at
AfterConfirm(e, settled) ==
    IF settled = "rejected"
    THEN TransactionCatch(Failed(e, "confirm"), <<"confirm">>)
    ELSE LET e1 == [e EXCEPT !.task.confirmed = TRUE,
                             !.task.err = (settled = "err")]
         IN  IF e.task.detectedTrade.type = "buy"
             THEN BuyUpdateHoldings(e1)
             ELSE removeHolding(e1)

\* writeFile has settled; a failure is raised by saveHoldings and caught
\* and logged by the trade
\* A variant in which the failure fails the trade; the code is AfterSave
\* below.
AfterSavePropagates(e, ok) ==
    IF ok THEN TradeResult([e EXCEPT !.ledgerFile = e.task.snapshot])
    ELSE TradeCatch([e EXCEPT !.task.ledgerFailure = "save"], <<"save">>)

AfterSave(e, ok) ==
    IF ok THEN TradeResult([e EXCEPT !.ledgerFile = e.task.snapshot])
    ELSE TradeResult([e EXCEPT !.task.ledgerFailure = "save"])

processCopyTrade(e) ==
    LET validation == validateTrade(e.task.detectedTrade, e.task.config)
    IN  IF ~validation.isValid
        THEN Finish(e, FailedResult(e.task, validation.error))
        ELSE IF ~loadBotWallet(e.task.config.botWalletPrivateKey)
        THEN ProcessCatch(e, <<"Failed to load bot wallet">>)
        ELSE IF e.task.detectedTrade.type = "buy"
        THEN executeBuyTrade(e)
        ELSE executeSellTrade(e)

-----------------------------------------------------------------------------
(* CopyTradingEngine: the turns *)

\* the copy-trade callback: what the monitor's .then hands to it when a
\* processCopyTrade call it made has returned (walletMonitor.ts:216-228)
CopyTradeEvent(task) ==
    [kind |-> "copyTrade", unit |-> task.unit, result |-> task.result]

\* A variant whose .then does not hand the result over; the code is
\* CommitTrade below.
CommitTradeSilent(others, e) ==
    /\ holdings' = e.holdings
    /\ ledgerFile' = e.ledgerFile
    /\ IF e.task.pc = "done"
       THEN trades' = others /\ tradeDone' = e.task
       ELSE trades' = others \cup {e.task} /\ tradeDone' = NoTrade
    /\ UNCHANGED <<monitorVars, ledgerVars, analyzerVars, eventVars>>

CommitTrade(others, e) ==
    /\ holdings' = e.holdings
    /\ ledgerFile' = e.ledgerFile
    /\ IF e.task.pc = "done"
       THEN trades' = others /\ tradeDone' = e.task
       ELSE trades' = others \cup {e.task} /\ tradeDone' = NoTrade
    /\ emitted' = IF e.task.pc = "done" /\ e.task.unit # 0
                  THEN Append(emitted, CopyTradeEvent(e.task))
                  ELSE emitted
    /\ UNCHANGED <<monitorVars, ledgerVars, analyzerVars,
                   units, nunits, unitFaults, unitDone>>

Fault(failed) ==
    /\ tradeFaults' = tradeFaults + (IF failed THEN 1 ELSE 0)
    /\ tradeFaults' <= MaxTradeFaults

ProcessCopyTradeCall ==
    /\ ntrades < MaxTrades
    /\ \E detectedTrade \in TradeInputs, config \in ConfigInputs :
          CommitTrade({ [t EXCEPT !.overlapped = TRUE] : t \in trades },
                      processCopyTrade(Engine(NewTrade(detectedTrade, config))))
    /\ ntrades' = ntrades + 1
    /\ UNCHANGED tradeFaults

BalanceSettles ==
    \E t \in trades :
       /\ t.pc = "balance"
       /\ \E ok \in BOOLEAN, amount \in BalanceInputs :
             /\ (~ok => amount = U64(0, 0))
             /\ Fault(~ok)
             /\ CommitTrade(trades \ {t}, AfterBalance(Engine(t), ok, amount))
       /\ UNCHANGED ntrades

QuoteSettles ==
    \E t \in trades :
       /\ t.pc = "quote"
       /\ \E quote \in QuoteInputs \cup {NoTrade} :
             /\ Fault(quote = NoTrade \/ ~BigInt(quote.outAmount).ok)
             /\ CommitTrade(trades \ {t}, AfterQuote(Engine(t), quote))
       /\ UNCHANGED ntrades

SwapSettles ==
    \E t \in trades :
       /\ t.pc = "swap"
       /\ \E swapOk \in BOOLEAN, deserializes \in BOOLEAN :
             /\ (~swapOk => deserializes)
             /\ Fault(~swapOk \/ ~deserializes)
             /\ CommitTrade(trades \ {t}, AfterSwap(Engine(t), swapOk, deserializes))
       /\ UNCHANGED ntrades

SendSettles ==
    \E t \in trades :
       /\ t.pc = "send"
       /\ \E ok \in BOOLEAN :
             /\ Fault(~ok)
             /\ CommitTrade(trades \ {t}, AfterSend(Engine(t), ok))
       /\ UNCHANGED ntrades

ConfirmSettles ==
    \E t \in trades :
       /\ t.pc = "confirm"
       /\ \E settled \in ConfirmInputs :
             /\ Fault(settled # "ok")
             /\ CommitTrade(trades \ {t}, AfterConfirm(Engine(t), settled))
       /\ UNCHANGED ntrades

SaveSettles ==
    \E t \in trades :
       /\ t.pc = "save"
       /\ \E ok \in BOOLEAN :
             /\ Fault(~ok)
             /\ CommitTrade(trades \ {t}, AfterSave(Engine(t), ok))
       /\ UNCHANGED ntrades

\* processCopyTrade is invoked for a detected trade of one mint that
\* passes validation, with a key that decodes
SameMintTradeCall ==
    /\ ntrades < MaxSameMintTrades
    /\ \E type \in {"buy", "sell"} :
          CommitTrade({ [t EXCEPT !.overlapped = TRUE] : t \in trades },
                      processCopyTrade(Engine(NewTrade(
                          DetectedTrade(type, "M1", 5, 1),
                          ConfigData(<<"k">>, 1, 10)))))
    /\ ntrades' = ntrades + 1
    /\ UNCHANGED tradeFaults

EngineIdle ==
    /\ holdings = EmptyLedger
    /\ trades = {}
    /\ ntrades = 0
    /\ tradeFaults = 0
    /\ tradeDone = NoTrade

EngineInit ==
    /\ EngineIdle
    /\ ledgerFile \in LedgerFileInputs

-----------------------------------------------------------------------------
(* Properties of the copy-trading engine (specification SpecEngine).      *)
(* tradeDone is the processCopyTrade call that returned in the last turn. *)

\* the transaction of the call was confirmed as successful on the chain
Executed(t) == t.confirmed /\ ~t.err

BuyOrder == <<"quote", "swap", "send", "confirm", "merge", "save">>

IsPrefix(p, q) == Len(p) <= Len(q) /\ SubSeq(q, 1, Len(p)) = p

\* C7: processCopyTrade never throws.  Whatever the trade, the
\* configuration and the external failure, the call returns a
\* CopyTradeResult, and when the trade was not executed the result has
\* success=false and an error message.
C7_ProcessCopyTradeNeverThrows ==
    tradeDone # NoTrade =>
        /\ tradeDone.outcome = "returned"
        /\ tradeDone.result # NoTrade
        /\ ~Executed(tradeDone) =>
              (~tradeDone.result.success /\ tradeDone.result.error # <<>>)

\* the part of C7 that holds: the call always returns a result, and the
\* result is a failure with a message whenever confirmTransaction did not
\* return
C7_ReturnsResult ==
    tradeDone # NoTrade =>
        /\ tradeDone.outcome = "returned"
        /\ tradeDone.result # NoTrade
        /\ ~tradeDone.confirmed =>
              (~tradeDone.result.success /\ tradeDone.result.error # <<>>)

\* the rejections of the claim, stated on the inputs of the call
ValidationFails(t) ==
    \/ t.detectedTrade.type \notin {"buy", "sell"}
    \/ t.detectedTrade.tokenAmount <= 0
    \/ t.detectedTrade.currencyAmount <= 0
    \/ Trim(t.config.botWalletPrivateKey) = <<>>
    \/ t.detectedTrade.type = "buy" /\ t.config.copyTradeAmountSol.num <= 0

KeyUndecodable(t) == ~loadBotWallet(t.config.botWalletPrivateKey)

\* C8: when validation fails or the signing key cannot be decoded,
\* processCopyTrade returns success=false with an error, has issued no
\* balance, quote, swap-build or broadcast request and has made no ledger
\* change.
C8_RejectedTradeDoesNothing ==
    (tradeDone # NoTrade /\ (ValidationFails(tradeDone) \/ KeyUndecodable(tradeDone))) =>
        /\ tradeDone.outcome = "returned"
        /\ ~tradeDone.result.success
        /\ tradeDone.result.error # <<>>
        /\ tradeDone.steps = <<>>
        /\ holdings = tradeDone.before

\* a valid buy whose key text is no key has been turned down while another
\* trade is in flight
C8_Witness ==
    /\ tradeDone # NoTrade
    /\ ~ValidationFails(tradeDone)
    /\ KeyUndecodable(tradeDone)
    /\ tradeDone.result.error[1] = "Copy trade failed"
    /\ trades # {}

BuyCalls == { t \in trades \cup {tradeDone} : t # NoTrade /\ t.detectedTrade.type = "buy" }

\* C9: in a buy the steps occur in the order quote request, swap request,
\* sign and broadcast, confirmation, ledger merge; the ledger is changed
\* only after confirmation has succeeded; and when the quote is none, the
\* swap transaction is none, or broadcast or confirmation fails, no later
\* step is performed, the ledger is unchanged and the result has
\* success=false with no signature.
C9_BuyStepsInOrder ==
    \A t \in BuyCalls :
        /\ IsPrefix(t.steps, BuyOrder)
        /\ "merge" \in Range(t.steps) => Executed(t)
        /\ (t.failedAt \in {"quote", "swap", "send", "confirm"} \/ t.err) =>
              /\ t = tradeDone
              /\ "merge" \notin Range(t.steps)
              /\ ~t.overlapped => holdings = t.before
              /\ ~t.result.success
              /\ t.result.signature = NoSignature

\* the part of C9 that holds: the order of the steps, no ledger change
\* before confirmTransaction has returned, and nothing after a step that
\* returned none or raised
C9_StepsUntilFailure ==
    \A t \in BuyCalls :
        /\ IsPrefix(t.steps, BuyOrder)
        /\ "merge" \in Range(t.steps) => t.confirmed
        /\ t.failedAt \in {"quote", "swap", "send", "confirm"} =>
              /\ t = tradeDone
              /\ t.steps[Len(t.steps)] = t.failedAt
              /\ ~t.overlapped => holdings = t.before
              /\ ~t.result.success
              /\ t.result.signature = NoSignature

\* C10: when the ledger update (the merge or the file write) fails after
\* a buy has been broadcast and confirmed, processCopyTrade still returns
\* success=true with the signature of the broadcast.
C10_LedgerFailureKeepsResult ==
    (/\ tradeDone # NoTrade
     /\ tradeDone.detectedTrade.type = "buy"
     /\ Executed(tradeDone)
     /\ tradeDone.ledgerFailure # "none") =>
        /\ tradeDone.outcome = "returned"
        /\ tradeDone.result.success
        /\ tradeDone.signature # NoSignature
        /\ tradeDone.result.signature = tradeDone.signature

\* a confirmed buy whose file write failed has returned
C10_Witness ==
    /\ tradeDone # NoTrade
    /\ tradeDone.detectedTrade.type = "buy"
    /\ Executed(tradeDone)
    /\ tradeDone.ledgerFailure = "save"
    /\ tradeDone.result.success

\* the call is a sell that passes validation and key decoding
AcceptedSell(t) ==
    /\ t # NoTrade
    /\ t.detectedTrade.type = "sell"
    /\ ~ValidationFails(t)
    /\ ~KeyUndecodable(t)

\* C11: a sell for a mint that has no ledger entry when the call is made
\* returns success=false with an explanatory error and makes no balance
\* query, no quote request, no swap request and no broadcast.
C11_SellWithoutHoldingSkipped ==
    (AcceptedSell(tradeDone)
     /\ tradeDone.detectedTrade.tokenMint \notin DOMAIN tradeDone.before) =>
        /\ tradeDone.outcome = "returned"
        /\ ~tradeDone.result.success
        /\ tradeDone.result.error # <<>>
        /\ tradeDone.result.signature = NoSignature
        /\ tradeDone.steps = <<>>

\* a sell was skipped while a buy of the same mint, not yet merged, is in
\* flight
C11_Witness ==
    /\ AcceptedSell(tradeDone)
    /\ tradeDone.detectedTrade.tokenMint \notin DOMAIN tradeDone.before
    /\ tradeDone.result.error[1] = "No holding found"
    /\ \E b \in trades : b.detectedTrade.type = "buy" /\ b.pc = "confirm"

\* the sells, running or just returned, that have asked for a quote
QuotedSells ==
    { t \in trades \cup {tradeDone} :
         AcceptedSell(t) /\ "quote" \in Range(t.steps) }

\* C12: the amount for which a sell quote is requested equals the live
\* balance of the mint that this sell read from the chain.
C12_SellQuotesLiveBalance ==
    \A t \in QuotedSells : t.quoteAmount = t.balance

\* the part of C12 that holds: the amount is the live balance converted
\* to a number, whatever the ledger records, and is the live balance when
\* the balance is below 2^53
C12_SellQuotesBalanceAsNumber ==
    \A t \in QuotedSells :
        /\ t.quoteAmount = Number(t.balance)
        /\ t.balance.hi = 0 => t.quoteAmount = t.balance

\* the entry of the mint of call t is as it was when t was invoked
EntryUnchanged(t) ==
    getHolding(holdings, t.detectedTrade.tokenMint)
        = getHolding(t.before, t.detectedTrade.tokenMint)

\* C13: a sell whose live balance is zero, or whose balance query fails,
\* returns success=false after the balance query alone; and every failed
\* sell (that one, quote none, swap none, broadcast failure, confirmation
\* failure, the transaction failing on the chain) has removed nothing from
\* the ledger and, when no other trade overlaps it, leaves the entry of
\* the mint as it was.
C13_FailedSellKeepsEntry ==
    AcceptedSell(tradeDone) =>
        /\ tradeDone.failedAt = "balance" =>
              (~tradeDone.result.success /\ tradeDone.steps = <<"balance">>)
        /\ (tradeDone.failedAt # "none" \/ tradeDone.err) =>
              /\ ~tradeDone.result.success
              /\ "remove" \notin Range(tradeDone.steps)
              /\ ~tradeDone.overlapped => EntryUnchanged(tradeDone)

\* the part of C13 that holds: the same, for the failures that the code
\* sees as a value none or as an exception
C13_RaisedSellKeepsEntry ==
    AcceptedSell(tradeDone) =>
        /\ tradeDone.failedAt = "balance" =>
              (~tradeDone.result.success /\ tradeDone.steps = <<"balance">>)
        /\ tradeDone.failedAt # "none" =>
              /\ ~tradeDone.result.success
              /\ "remove" \notin Range(tradeDone.steps)
              /\ ~tradeDone.overlapped => EntryUnchanged(tradeDone)

\* C14: whenever processCopyTrade returns success=true for a sell of a
\* mint, the ledger holds no entry for that mint at that moment, whatever
\* other copy trades of the mint are in flight.
C14_SoldMintHasNoEntry ==
    (AcceptedSell(tradeDone) /\ tradeDone.result.success) =>
        tradeDone.detectedTrade.tokenMint \notin DOMAIN holdings

\* the part of C14 that holds: a successful sell that no other trade
\* overlaps leaves no entry, and every successful sell found no entry to
\* remove or removed it
C14_SoldMintRemoved ==
    (AcceptedSell(tradeDone) /\ tradeDone.result.success) =>
        /\ ~tradeDone.overlapped =>
              tradeDone.detectedTrade.tokenMint \notin DOMAIN holdings
        /\ tradeDone.confirmed

-----------------------------------------------------------------------------
(* StateManager called directly: loadHoldings, addOrUpdateHolding and      *)
(* removeHolding, each suspended at its file operation.                    *)

MaxOps == 2         \* calls of the StateManager per behaviour
MaxOpFaults == 1    \* failing file operations per behaviour

Mints == {"M1", "M2"}

\* the fields validateHolding looks at
HoldingFields ==
    {"tokenMint", "amountLamports", "solSpentLamports", "buyTxSignature",
     "monitoredWallet", "timestamp", "tokenSymbol", "tokenDecimals"}

\* A record of a ledger file without one field.  typeof of a missing field
\* and typeof of a field of another type both differ from the type asked
\* for, so one stands for the other.
Without(holding, field) == [f \in DOMAIN holding \ {field} |-> holding[f]]

\* the arguments of addOrUpdateHolding: mint, amount bought, amount spent
AddInputs ==
    { <<"M1", <<"1", "0", "0", "0">>, <<"5", "0", "0">> >>,
      <<"M1", <<"2", "0", "0", "0">>, <<"3", "0", "0">> >>,
      <<"M1", <<"-", "5">>, <<"0">> >>,
      <<"M1", <<"1", ".", "5">>, <<"1">> >>,
      <<"M2", <<"7">>, <<"7">> >> }

\* what the ledger file holds when the program starts
DiskFileInputs ==
    { NoFile,
      TextFile("blank"),
      TextFile("garbage"),
      TextFile("null"),
      File([m \in Mints |->
              IF m = "M1"
              THEN Holding("M1", <<"4">>, <<"2">>, 99, "w", "TOK", 6)
              ELSE Without(Holding("M2", <<"4">>, <<"2">>, 99, "w", "TOK", 6),
                           "timestamp")]),
      File([m \in {"M2"} |->
              Holding("M2", <<"-", "5">>, <<"a", "b", "c">>, 99, "w", "TOK", 6)]) }

validateHolding(holding) == HoldingFields \subseteq DOMAIN holding

\* A variant of the loop of loadHoldings that keeps every record; the
\* code is loadedHoldings below.
loadedHoldingsUnvalidated(parsedData) == parsedData

\* loadHoldings: the Map built from the parsed file, under the file's keys
loadedHoldings(parsedData) ==
    [tokenMint \in { k \in DOMAIN parsedData : validateHolding(parsedData[k]) }
        |-> parsedData[tokenMint]]

\* A variant of the catch block of loadHoldings that keeps the Map; the
\* code is LoadCatch below.
LoadCatchKeepsHoldings(h) == h

\* loadHoldings: the catch block, this.holdings = new Map() on both branches
LoadCatch(h) == EmptyLedger

\* A variant of removeHolding that deletes and saves whatever the Map
\* holds; the code is removeHoldingPresent below.
removeHoldingAlways(h, tokenMint) == TRUE

\* removeHolding: the test that guards the deletion and the save
removeHoldingPresent(h, tokenMint) == tokenMint \in DOMAIN h

NewOp(op, tokenMint, amountBoughtLamports, solSpentLamports) ==
    [id |-> nops + 1, op |-> op, tokenMint |-> tokenMint,
     amountBoughtLamports |-> amountBoughtLamports,
     solSpentLamports |-> solSpentLamports,
     pc |-> "run",
     snapshot |-> NoFile,      \* the JSON text handed to fs.writeFile
     fileContent |-> NoFile,   \* what fs.readFile returned
     outcome |-> "pending",    \* "returned" or "threw"
     cause |-> "none",         \* loadHoldings: the branch it ended on
     steps |-> <<>>,           \* the file operations awaited
     before |-> holdings,      \* the Map at invocation
     beforeFile |-> ledgerFile,
     overlapped |-> ops # {}]  \* another call was in progress meanwhile

\* the suspended calls, once another call is made
Overlapped == { [o EXCEPT !.overlapped = TRUE] : o \in ops }

OpStep(o, step) == [o EXCEPT !.steps = Append(@, step)]
OpFinish(o, outcome, cause) ==
    [o EXCEPT !.pc = "done", !.outcome = outcome, !.cause = cause]

NoPurchases == [n |-> 0, amount |-> 0, spent |-> 0, clean |-> TRUE]

\* bought after addOrUpdateHolding(tokenMint, amount, spent) has set the Map
Purchased(tokenMint, amount, spent) ==
    LET a == BigInt(amount)
        s == BigInt(spent)
        b == bought[tokenMint]
    IN  [bought EXCEPT ![tokenMint] =
            IF a.ok /\ s.ok
            THEN [b EXCEPT !.n = @ + 1, !.amount = @ + a.value,
                           !.spent = @ + s.value]
            ELSE [b EXCEPT !.clean = FALSE]]

\* One turn of a call: the calls left suspended, the call that returned.
CommitOp(others, o) ==
    /\ ops' = IF o.pc = "done" THEN others
              ELSE others \cup {o}
    /\ opDone' = IF o.pc = "done" THEN o ELSE Nil
    /\ UNCHANGED <<monitorVars, trades, ntrades, tradeFaults, tradeDone,
                   analyzerVars, eventVars>>

OpFault(ok) ==
    /\ ~ok => opFaults < MaxOpFaults
    /\ opFaults' = IF ok THEN opFaults ELSE opFaults + 1

\* addOrUpdateHolding(...) up to "await this.saveHoldings()"
AddOrUpdateHoldingCall ==
    /\ nops < MaxOps
    /\ \E a \in AddInputs :
          LET o == NewOp("add", a[1], a[2], a[3])
              r == addOrUpdateHolding(holdings, a[1], a[2], a[3],
                                      99, "w", "TOK", 6)
          IN  IF r.ok
              THEN /\ holdings' = r.holdings
                   /\ bought' = Purchased(a[1], a[2], a[3])
                   /\ CommitOp(Overlapped, [OpStep(o, "write") EXCEPT
                                        !.pc = "write",
                                        !.snapshot = File(r.holdings)])
              ELSE /\ CommitOp(Overlapped, OpFinish(o, "threw", "SyntaxError"))
                   /\ UNCHANGED <<holdings, bought>>
    /\ nops' = nops + 1
    /\ UNCHANGED <<ledgerFile, opFaults, writes>>

\* removeHolding(tokenMint) up to "await this.saveHoldings()"
RemoveHoldingCall ==
    /\ nops < MaxOps
    /\ \E tokenMint \in Mints :
          LET o == NewOp("remove", tokenMint, <<>>, <<>>)
          IN  IF removeHoldingPresent(holdings, tokenMint)
              THEN /\ holdings' = HoldingsDelete(holdings, tokenMint)
                   /\ bought' = [bought EXCEPT ![tokenMint] = NoPurchases]
                   /\ CommitOp(Overlapped, [OpStep(o, "write") EXCEPT
                                        !.pc = "write",
                                        !.snapshot = File(holdings')])
              ELSE /\ CommitOp(Overlapped, OpFinish(o, "returned", "not found"))
                   /\ UNCHANGED <<holdings, bought>>
    /\ nops' = nops + 1
    /\ UNCHANGED <<ledgerFile, opFaults, writes>>

\* saveHoldings: fs.writeFile settles.  The text written is the one built
\* when saveHoldings was called.
WriteSettles ==
    \E o \in ops, ok \in BOOLEAN :
        /\ o.pc = "write"
        /\ OpFault(ok)
        /\ ledgerFile' = IF ok THEN o.snapshot ELSE ledgerFile
        /\ writes' = IF ok THEN [writes EXCEPT !.completed = TRUE]
                     ELSE [writes EXCEPT !.failed = TRUE]
        /\ CommitOp(ops \ {o},
                    OpFinish(o, IF ok THEN "returned" ELSE "threw", "write"))
        /\ UNCHANGED <<holdings, nops, bought>>

\* loadHoldings() up to "await fs.access(...)"
LoadHoldingsCall ==
    /\ nops < MaxOps
    /\ CommitOp(Overlapped, [OpStep(NewOp("load", "", <<>>, <<>>), "access") EXCEPT
                         !.pc = "access"])
    /\ nops' = nops + 1
    /\ UNCHANGED <<holdings, ledgerFile, opFaults, bought, writes>>

\* loadHoldings: the Map is replaced, on whatever branch
LoadAssign(o, h, cause) ==
    /\ holdings' = h
    /\ bought' = [m \in Mints |->
                    IF m \in DOMAIN h THEN [NoPurchases EXCEPT !.clean = FALSE]
                    ELSE NoPurchases]
    /\ writes' = IF writes.completed \/ \E w \in ops : w.pc = "write"
                 THEN [writes EXCEPT !.reloaded = TRUE]
                 ELSE writes
    /\ CommitOp(ops \ {o}, OpFinish(o, "returned", cause))

\* loadHoldings: fs.access settles
AccessSettles ==
    \E o \in ops, ok \in BOOLEAN :
        /\ o.pc = "access"
        /\ OpFault(ok)
        /\ IF ok /\ ledgerFile.exists
           THEN /\ CommitOp(ops \ {o}, [OpStep(o, "read") EXCEPT !.pc = "read"])
                /\ UNCHANGED <<holdings, bought, writes>>
           ELSE LoadAssign(o, LoadCatch(holdings),
                           IF ok THEN "missing" ELSE "access failure")
        /\ UNCHANGED <<ledgerFile, nops>>

\* loadHoldings: fs.readFile settles, and the rest of the function
ReadSettles ==
    \E o \in ops, ok \in BOOLEAN :
        /\ o.pc = "read"
        /\ OpFault(ok)
        /\ LET read == [o EXCEPT !.fileContent = ledgerFile]
           IN  IF ~ok
               THEN LoadAssign(o, LoadCatch(holdings), "read failure")
               ELSE IF ledgerFile.text = "blank"
               THEN LoadAssign(read, EmptyLedger, "empty")
               ELSE IF ledgerFile.text = "json"
               THEN LoadAssign(read, loadedHoldings(ledgerFile.holdings),
                               "loaded")
               ELSE LoadAssign(read, LoadCatch(holdings), "parse failure")
        /\ UNCHANGED <<ledgerFile, nops>>

LedgerIdle ==
    /\ ops = {}
    /\ nops = 0
    /\ opFaults = 0
    /\ opDone = Nil
    /\ bought = [m \in Mints |-> NoPurchases]
    /\ writes = [completed |-> FALSE, failed |-> FALSE, reloaded |-> FALSE]

\* after construction: an empty Map, whatever the file holds
LedgerInit ==
    /\ EngineIdle
    /\ ledgerFile \in DiskFileInputs
    /\ LedgerIdle

-----------------------------------------------------------------------------
(* StateManager: the properties *)

\* C15: after addOrUpdateHolding calls for a mint with no removal of that
\* mint in between, all with integer amounts, the ledger holds one entry
\* for the mint, whose amount is the exact sum of the amounts bought and
\* whose spent value is the exact sum of the amounts spent.
C15_AddOrUpdateSumsExactly ==
    \A m \in Mints :
        (bought[m].n > 0 /\ bought[m].clean) =>
            /\ m \in DOMAIN holdings
            /\ holdings[m].tokenMint = m
            /\ holdings[m].amountLamports = IntToString(bought[m].amount)
            /\ holdings[m].solSpentLamports = IntToString(bought[m].spent)

\* 1000 + 2000 gives 3000 and 500 + 300 gives 800
C15_Witness ==
    /\ bought["M1"].n = 2
    /\ bought["M1"].clean
    /\ "M1" \in DOMAIN holdings
    /\ holdings["M1"].amountLamports = <<"3", "0", "0", "0">>
    /\ holdings["M1"].solSpentLamports = <<"8", "0", "0">>

\* C16: whenever no call of the StateManager is in progress, a file write
\* has completed, no file write has failed and the ledger was not loaded
\* again after the first mutation, the ledger file holds exactly the
\* entries of the in-memory ledger, in whatever order overlapping writes
\* completed.
C16_FileMatchesLedger ==
    (ops = {} /\ writes.completed /\ ~writes.failed /\ ~writes.reloaded) =>
        ledgerFile = File(holdings)

\* What does hold: a mutation that no other call overlapped, and whose
\* write succeeded, leaves the file equal to the in-memory ledger.
C16_FileMatchesAfterLoneMutation ==
    (/\ opDone # Nil
     /\ opDone.op \in {"add", "remove"}
     /\ opDone.steps = <<"write">>
     /\ opDone.outcome = "returned"
     /\ ~opDone.overlapped) =>
        ledgerFile = File(holdings)

RemovedAbsent(o) ==
    o # Nil /\ o.op = "remove" /\ o.tokenMint \notin DOMAIN o.before

\* C17: removeHolding of a mint that has no entry returns without an
\* error, leaves the in-memory ledger as it was (same entries, same size)
\* and writes nothing to the file.
C17_RemoveAbsentIsNoOp ==
    RemovedAbsent(opDone) =>
        /\ opDone.outcome = "returned"
        /\ opDone.steps = <<>>
        /\ holdings = opDone.before
        /\ Cardinality(DOMAIN holdings) = Cardinality(DOMAIN opDone.before)
        /\ ledgerFile = opDone.beforeFile

\* a mint without an entry is removed from a ledger that holds another one
C17_Witness ==
    /\ RemovedAbsent(opDone)
    /\ opDone.tokenMint = "M2"
    /\ DOMAIN holdings = {"M1"}

\* loadHoldings returned after it parsed the file into an object
LoadedParsed(o) == o # Nil /\ o.op = "load" /\ o.cause = "loaded"

\* C18: after loadHoldings of a file that parses, the in-memory ledger
\* holds exactly the records of the file that pass validateHolding, each
\* under the mint it is filed under; the other records are dropped and
\* the load goes on.
C18_LoadKeepsValidRecords ==
    LoadedParsed(opDone) =>
        LET parsedData == opDone.fileContent.holdings
        IN  /\ opDone.outcome = "returned"
            /\ DOMAIN holdings =
                  { k \in DOMAIN parsedData : validateHolding(parsedData[k]) }
            /\ \A k \in DOMAIN holdings : holdings[k] = parsedData[k]

\* one valid and one invalid record give one entry
C18_Witness ==
    /\ LoadedParsed(opDone)
    /\ DOMAIN opDone.fileContent.holdings = {"M1", "M2"}
    /\ ~validateHolding(opDone.fileContent.holdings["M2"])
    /\ DOMAIN holdings = {"M1"}
    /\ Cardinality(DOMAIN holdings) = 1

\* the ways loadHoldings ends without a parsed file
LoadFailures ==
    {"missing", "access failure", "read failure", "empty", "parse failure"}

\* C19: loadHoldings never raises; when the file is missing, is empty,
\* cannot be read or cannot be parsed, the in-memory ledger is empty on
\* return, whatever it held before the call.
C19_LoadFailsOpen ==
    (opDone # Nil /\ opDone.op = "load") =>
        /\ opDone.outcome = "returned"
        /\ opDone.cause \in LoadFailures \cup {"loaded"}
        /\ opDone.cause \in LoadFailures => holdings = EmptyLedger
        /\ (opDone.steps = <<"access", "read">>
              /\ opDone.fileContent # NoFile
              /\ opDone.fileContent.text # "json") => holdings = EmptyLedger

\* a file that does not parse empties a ledger that held an entry
C19_Witness ==
    /\ opDone # Nil
    /\ opDone.op = "load"
    /\ opDone.cause = "parse failure"
    /\ opDone.before # EmptyLedger
    /\ holdings = EmptyLedger

\* C20: in every state of the ledger, whatever loadHoldings,
\* addOrUpdateHolding and removeHolding calls led to it, no two entries
\* are of one mint and the amount and the spent value of every entry are
\* non-negative integers (texts of decimal digits).
C20_LedgerWellFormed ==
    /\ \A k1, k2 \in DOMAIN holdings :
          holdings[k1].tokenMint = holdings[k2].tokenMint => k1 = k2
    /\ \A k \in DOMAIN holdings :
          /\ IsDigits(holdings[k].amountLamports)
          /\ IsDigits(holdings[k].solSpentLamports)

\* What does hold: every entry is filed under its own mint, so no two
\* entries are of one mint (the files of DiskFileInputs file each record
\* under its mint, as saveHoldings does).
C20_OneHoldingPerMint ==
    \A k \in DOMAIN holdings : holdings[k].tokenMint = k

-----------------------------------------------------------------------------
(* TransactionAnalyzer: inputs.  A Decimal is an integer count of         *)
(* 10^-7 units, for currency and token amounts alike; the amounts of the  *)
(* inputs are multiples of that unit (lamport balances are multiples of   *)
(* 100).                                                                  *)

MaxAnalyses == 3       \* calls of analyzeTransaction per behaviour
MaxLookupFaults == 1   \* failing getMint requests per behaviour

DecimalOne == 10000000     \* the Decimal 1
SolThreshold == 100        \* new Decimal(0.00001)
TokenThreshold == 10       \* new Decimal(0.000001)
FallbackDecimals == 6      \* "Common default"
NullAmount == -1           \* uiAmount: null

DEX_PROGRAM_IDS ==
    { "JUP6LkbZbjS1jKKwapdHNy74zcZ3tLUZoi5QNyVTaV4",
      "whirLbMiicVdio4qvUfM5KAg6Ct8VwpYzGff3uctyCc",
      "PhoeNiXZ8ByJGLkxNfZRnkUfjvmuYqLR89jjFHGqdXY",
      "5Q544fKrFoe6tsEbD7S8EmxGTJYAKtTVhAW5Q5pge4j1",
      "675kPX9MHTjS2zt1qfr1NYHuzeLXfQM9H24wFSUt1Mp8",
      "CAMMCzo5YL8w4VFF8KVHrK22GGUsp5VTaW7grrKgrWqK",
      "LBUZKhRxPF3XUpBCjp4YzTKgLccjZhTSDM9YuVaPwxo",
      "Eo7WjKq67rjJQSZxS6z3YkapzY3eMj6Xy8X5EQVn5UaB",
      "pAMMBay6oceH9fJKBRHGP5D4bD4sWpmSwMn52FMfXEA",
      "SoLFiHG9TfgtdUXUjWAxi3LtvYuFyDLVhBWxdMZxyCe",
      "opnb2LAfJYbRMAHHvqjCwQxanZn7ReEHp1k81EohpZb",
      "6EF8rrecthR5Dkzon8Nwu78hRvfCKubJ14M5uBEwF6P",
      "obriQD1zbpyLz95G5n7nJe6a4DPjpFwa5XYPoNm113y",
      "2wT8Yq49kHgDzXuPxZSaeLaH1qbmGXtEyPy64bL7aD3c",
      "6m2CDdhRgxpH4WjvdzxAYbGxwdGUz5MziiL5jek2kBma",
      "CPMMoo8L3F4NbTegBCKVNunggL7H1ZpdTHKxQB5qKP1C" }

Jupiter == "JUP6LkbZbjS1jKKwapdHNy74zcZ3tLUZoi5QNyVTaV4"
Raydium == "CPMMoo8L3F4NbTegBCKVNunggL7H1ZpdTHKxQB5qKP1C"
SystemProgram == "11111111111111111111111111111111"
TokenProgram == "TokenkegQfeZyiNwAJbNbGKPFXCWuBvf9Ss623VQ5DA"

\* the monitored wallet and a liquidity pool
Wallet == "Wallet111"
Pool == "Pool11111"

\* token mints, and mintAddress.slice(0, 8) of each
MintX == "Xmint1111111"
MintY == "Ymint1111111"
MintZ == "Zmint1111111"
Slice8 ==
    (MintX :> "Xmint111") @@ (MintY :> "Ymint111") @@ (MintZ :> "Zmint111")

\* an entry of preTokenBalances or postTokenBalances
TokenBalance(owner, mint, uiAmount) ==
    [owner |-> owner, mint |-> mint, uiAmount |-> uiAmount]

\* an account of the transaction: its key and its lamports before and after
Account(pubkey, pre, post) == [pubkey |-> pubkey, pre |-> pre, post |-> post]

NoInner == [present |-> FALSE, sets |-> <<>>]
Inner(sets) == [present |-> TRUE, sets |-> sets]

\* getParsedTransaction's value: null, or a transaction (with or without
\* meta) with its top-level program ids, its inner instruction sets, its
\* accounts and its token balances
NullTransaction == [present |-> FALSE]
Transaction(signature, meta, programIds, inner, accounts, pre, post) ==
    [present |-> TRUE, signature |-> signature, meta |-> meta,
     instructions |-> programIds, innerInstructions |-> inner,
     accounts |-> accounts,
     preTokenBalances |-> pre, postTokenBalances |-> post]

Fee == 5000                        \* lamports
OneSol == LAMPORTS_PER_SOL         \* lamports
\* the wallet's account when it has spent that many lamports
Spent(lamports) == Account(Wallet, OneSol, OneSol - lamports)

TransactionInputs ==
    { NullTransaction,
      \* a swap program at top level, but no meta
      Transaction("s1", FALSE, <<Jupiter>>, NoInner, <<>>, <<>>, <<>>),
      \* no swap program; the balances are those of a buy
      Transaction("s2", TRUE, <<SystemProgram, TokenProgram>>,
          Inner(<<<<TokenProgram>>>>),
          <<Account(Pool, 0, 0), Spent(OneSol)>>,
          <<>>,
          <<TokenBalance(Wallet, MintX, 100 * DecimalOne)>>),
      \* wrapped currency down by 1.0, X up by 100; the fee alone is native
      Transaction("s3", TRUE, <<Jupiter>>, NoInner,
          <<Spent(Fee)>>,
          <<TokenBalance(Wallet, WSOL_MINT, 2 * DecimalOne)>>,
          <<TokenBalance(Wallet, WSOL_MINT, 1 * DecimalOne),
            TokenBalance(Wallet, MintX, 100 * DecimalOne)>>),
      \* the swap program in an inner instruction; native currency down,
      \* X up; the pool's balances move the other way
      Transaction("s4", TRUE, <<SystemProgram>>,
          Inner(<<<<TokenProgram>>, <<TokenProgram, Raydium>>>>),
          <<Account(Pool, 0, OneSol), Spent(OneSol)>>,
          <<TokenBalance(Pool, MintX, 100 * DecimalOne)>>,
          <<TokenBalance(Pool, MintX, NullAmount),
            TokenBalance(Wallet, MintX, 100 * DecimalOne)>>),
      \* a sale of all of X: native currency up by 0.5
      Transaction("s5", TRUE, <<Raydium>>, Inner(<<>>),
          <<Spent(0 - (OneSol \div 2))>>,
          <<TokenBalance(Wallet, MintX, 100 * DecimalOne)>>,
          <<TokenBalance(Wallet, MintX, NullAmount)>>),
      \* Y down and X up while the currency is down: Y is inconsistent
      Transaction("s6", TRUE, <<Jupiter>>, NoInner,
          <<Spent(OneSol)>>,
          <<TokenBalance(Wallet, MintY, 5 * DecimalOne)>>,
          <<TokenBalance(Wallet, MintX, 100 * DecimalOne),
            TokenBalance(Wallet, MintY, 3 * DecimalOne)>>),
      \* the fee only: the currency change is dust
      Transaction("s7", TRUE, <<Jupiter>>, NoInner,
          <<Spent(Fee)>>,
          <<>>,
          <<TokenBalance(Wallet, MintX, 100 * DecimalOne)>>),
      \* the wrapped currency changes by the threshold exactly
      Transaction("s8", TRUE, <<Jupiter>>, NoInner,
          <<Spent(Fee)>>,
          <<TokenBalance(Wallet, WSOL_MINT, DecimalOne)>>,
          <<TokenBalance(Wallet, WSOL_MINT, DecimalOne - SolThreshold),
            TokenBalance(Wallet, MintX, 100 * DecimalOne)>>),
      \* Z up by 2 and X up by 100, Z found first; Y changes by the token
      \* threshold exactly
      Transaction("s9", TRUE, <<Jupiter>>, NoInner,
          <<Spent(OneSol)>>,
          <<TokenBalance(Wallet, MintY, DecimalOne),
            TokenBalance(Wallet, MintZ, DecimalOne)>>,
          <<TokenBalance(Wallet, MintX, 100 * DecimalOne),
            TokenBalance(Wallet, MintY, DecimalOne + TokenThreshold),
            TokenBalance(Wallet, MintZ, 3 * DecimalOne)>>),
      \* the wallet is no account of the transaction: the wrapped
      \* currency is up by 1.0 and Y is down
      Transaction("s10", TRUE, <<Jupiter>>, NoInner,
          <<Account(Pool, OneSol, 0)>>,
          <<TokenBalance(Wallet, MintY, 5 * DecimalOne)>>,
          <<TokenBalance(Wallet, MintY, 3 * DecimalOne),
            TokenBalance(Wallet, WSOL_MINT, DecimalOne)>>) }

-----------------------------------------------------------------------------
(* TransactionAnalyzer: the operations.  They transform a record a that   *)
(* holds the token cache and the record of the running call (a.task).     *)

Abs(d) == IF d < 0 THEN 0 - d ELSE d

\* A variant of isDexInteraction that looks at the top-level instructions
\* only; the code is isDexInteraction below.
isDexInteractionTopLevelOnly(transaction) ==
    IF ~transaction.present THEN FALSE
    ELSE IF ~transaction.meta THEN FALSE
    ELSE \E i \in 1..Len(transaction.instructions) :
            transaction.instructions[i] \in DEX_PROGRAM_IDS

isDexInteraction(transaction) ==
    IF ~transaction.present THEN FALSE
    ELSE IF ~transaction.meta THEN FALSE
    ELSE \/ \E i \in 1..Len(transaction.instructions) :
               transaction.instructions[i] \in DEX_PROGRAM_IDS
         \/ /\ transaction.innerInstructions.present
            /\ \E s \in 1..Len(transaction.innerInstructions.sets) :
                  \E i \in 1..Len(transaction.innerInstructions.sets[s]) :
                     transaction.innerInstructions.sets[s][i] \in DEX_PROGRAM_IDS

\* lamportsToSol: new Decimal(lamports).div(LAMPORTS_PER_SOL)
lamportsToSol(lamports) == lamports \div (LAMPORTS_PER_SOL \div DecimalOne)

\* the Map<string, TokenBalance> of analyzeTrade: its entries in insertion
\* order; set() of a key that is there replaces the value in place
BalanceMapSet(map, b) ==
    IF \E i \in 1..Len(map) : map[i].mint = b.mint
    THEN [i \in 1..Len(map) |-> IF map[i].mint = b.mint THEN b ELSE map[i]]
    ELSE Append(map, b)

RECURSIVE createBalanceMap(_, _)
createBalanceMap(balances, monitoredWalletAddress) ==
    IF balances = <<>> THEN <<>>
    ELSE LET b == balances[Len(balances)]
             map == createBalanceMap(SubSeq(balances, 1, Len(balances) - 1),
                                     monitoredWalletAddress)
         IN  IF b.owner = monitoredWalletAddress /\ b.uiAmount # NullAmount
             THEN BalanceMapSet(map, b)
             ELSE map

\* map.get(mint)?.uiTokenAmount.uiAmount ?? 0
UiAmountOrZero(map, mint) ==
    IF \E i \in 1..Len(map) : map[i].mint = mint
    THEN (CHOOSE b \in Range(map) : b.mint = mint).uiAmount
    ELSE 0

\* new Set([...pre.keys(), ...post.keys()]), in insertion order
RECURSIVE SetOf(_)
SetOf(keys) ==
    IF keys = <<>> THEN <<>>
    ELSE LET front == SetOf(SubSeq(keys, 1, Len(keys) - 1))
             k == keys[Len(keys)]
         IN  IF k \in Range(front) THEN front ELSE Append(front, k)

BalanceMapKeys(map) == [i \in 1..Len(map) |-> map[i].mint]

\* nativeSolChange: 0 when the wallet is no account of the transaction
nativeSolChange(transaction, wallet) ==
    LET accountKeys == transaction.accounts
        found == { i \in 1..Len(accountKeys) : accountKeys[i].pubkey = wallet }
    IN  IF found = {} THEN 0
        ELSE LET walletAccountIndex == CHOOSE i \in found : \A j \in found : i <= j
             IN  lamportsToSol(accountKeys[walletAccountIndex].post
                               - accountKeys[walletAccountIndex].pre)

\* A variant that always takes the native change; the code is
\* solChangeToUse below.
solChangeToUseNative(nativeChange, wsolTokenChange) ==
    [change |-> nativeChange, symbol |-> "SOL"]

\* "Determine which SOL change to use (native or wrapped)"
solChangeToUse(nativeChange, wsolTokenChange) ==
    IF Abs(nativeChange) > SolThreshold
    THEN [change |-> nativeChange, symbol |-> "SOL"]
    ELSE [change |-> wsolTokenChange, symbol |-> "WSOL"]

AnalyzerMints == {MintX, MintY, MintZ}

Analyzer(task) ==
    [tokenCache |-> tokenCache, firstInfo |-> firstInfo, task |-> task]

NewAnalysis(transaction, wallet) ==
    [id |-> nanalyses + 1, transaction |-> transaction, wallet |-> wallet,
     pc |-> "run",
     preTokenBalanceMap |-> <<>>, postTokenBalanceMap |-> <<>>,
     solChange |-> 0, solSymbol |-> "",
     allMints |-> <<>>,
     i |-> 0,                   \* the position of the for loop
     result |-> NoTrade,        \* the TradeAnalysisResult
     \* bookkeeping for the properties
     steps |-> <<>>,            \* "diff", then per lookup "cache" or "getMint"
     lookups |-> <<>>,          \* the getTokenInfo calls, in order
     cacheBefore |-> tokenCache]

AnalysisStep(a, step) == [a EXCEPT !.task.steps = Append(@, step)]

AnalysisReturn(a, isDexTransaction, detectedTrade) ==
    [a EXCEPT !.task.pc = "done",
              !.task.result = [isDexTransaction |-> isDexTransaction,
                               detectedTrade |-> detectedTrade]]

TokenChange(task, mint) ==
    UiAmountOrZero(task.postTokenBalanceMap, mint)
    - UiAmountOrZero(task.preTokenBalanceMap, mint)

RECURSIVE AnalyzeLoop(_)

\* A variant of the loop body that reports a mint whatever the sign of
\* the currency change; the code is AfterTokenInfo below.
AfterTokenInfoAnySign(a, tokenInfo) ==
    LET t == a.task
        mint == t.allMints[t.i]
        tokenChange == TokenChange(t, mint)
    IN  AnalysisReturn(a, TRUE,
            [type |-> IF tokenChange > 0 THEN "buy" ELSE "sell",
             tokenInfo |-> tokenInfo,
             tokenMint |-> mint,
             currencyMint |-> WSOL_MINT,
             currencySymbol |-> t.solSymbol,
             tokenAmount |-> Abs(tokenChange),
             currencyAmount |-> Abs(t.solChange),
             originalTxSignature |-> t.transaction.signature,
             monitoredWallet |-> t.wallet])

\* the loop body of analyzeTrade once getTokenInfo has returned
AfterTokenInfo(a, tokenInfo) ==
    LET t == a.task
        mint == t.allMints[t.i]
        tokenChange == TokenChange(t, mint)
        isBuy == tokenChange > 0 /\ t.solChange < 0 - SolThreshold
        isSell == tokenChange < 0 /\ t.solChange > SolThreshold
    IN  IF isBuy \/ isSell
        THEN AnalysisReturn(a, TRUE,
                [type |-> IF isBuy THEN "buy" ELSE "sell",
                 tokenInfo |-> tokenInfo,
                 tokenMint |-> mint,
                 currencyMint |-> WSOL_MINT,
                 currencySymbol |-> t.solSymbol,
                 tokenAmount |-> Abs(tokenChange),
                 currencyAmount |-> Abs(t.solChange),
                 originalTxSignature |-> t.transaction.signature,
                 monitoredWallet |-> t.wallet])
        ELSE AnalyzeLoop([a EXCEPT !.task.i = @ + 1])

\* the end of a getTokenInfo call: what it returned is written down
Looked(a, tokenInfo) ==
    [a EXCEPT !.task.lookups[Len(a.task.lookups)].info = tokenInfo]

\* getTokenInfo up to "await getMint(...)"; known is what the first
\* lookup of the mint that returned gave, if one has returned
getTokenInfo(a, mintAddress) ==
    LET l == [mint |-> mintAddress, known |-> a.firstInfo[mintAddress],
              remote |-> mintAddress \notin DOMAIN a.tokenCache,
              failed |-> FALSE, info |-> NoInfo]
        a1 == [a EXCEPT !.task.lookups = Append(@, l)]
    IN  IF mintAddress \in DOMAIN a.tokenCache
        THEN AfterTokenInfo(
                 Looked(AnalysisStep(a1, "cache"), a.tokenCache[mintAddress]),
                 a.tokenCache[mintAddress])
        ELSE [AnalysisStep(a1, "getMint") EXCEPT !.task.pc = "getMint"]

\* getTokenInfo once getMint has settled: the information, or the
\* fallback, is cached and returned
AfterGetMint(a, ok, decimals) ==
    LET mintAddress == a.task.allMints[a.task.i]
        tokenInfo == [mint |-> mintAddress,
                      symbol |-> Slice8[mintAddress],
                      decimals |-> IF ok THEN decimals ELSE FallbackDecimals]
        a1 == [a EXCEPT
                 !.tokenCache = [m \in DOMAIN @ \cup {mintAddress} |->
                                   IF m = mintAddress THEN tokenInfo ELSE @[m]],
                 !.firstInfo[mintAddress] = IF @ = NoInfo THEN tokenInfo ELSE @,
                 !.task.lookups[Len(a.task.lookups)].failed = ~ok,
                 !.task.pc = "run"]
    IN  AfterTokenInfo(Looked(a1, tokenInfo), tokenInfo)

\* the for loop of analyzeTrade, from its position up to the next getMint
\* request or to the end of the function
AnalyzeLoop(a) ==
    LET t == a.task
    IN  IF t.i > Len(t.allMints) THEN AnalysisReturn(a, TRUE, NoTrade)
        ELSE LET mint == t.allMints[t.i]
             IN  IF mint = WSOL_MINT
                 THEN AnalyzeLoop([a EXCEPT !.task.i = @ + 1])
                 ELSE IF Abs(TokenChange(t, mint)) > TokenThreshold
                 THEN getTokenInfo(a, mint)
                 ELSE AnalyzeLoop([a EXCEPT !.task.i = @ + 1])

\* analyzeTrade up to the loop
analyzeTrade(a) ==
    LET transaction == a.task.transaction
    IN  IF ~transaction.present THEN AnalysisReturn(a, TRUE, NoTrade)
        ELSE IF ~transaction.meta THEN AnalysisReturn(a, TRUE, NoTrade)
        ELSE
        LET pre == createBalanceMap(transaction.preTokenBalances, a.task.wallet)
            post == createBalanceMap(transaction.postTokenBalances, a.task.wallet)
            wsolTokenChange ==
                UiAmountOrZero(post, WSOL_MINT) - UiAmountOrZero(pre, WSOL_MINT)
            sol == solChangeToUse(nativeSolChange(transaction, a.task.wallet),
                                  wsolTokenChange)
            a1 == [AnalysisStep(a, "diff") EXCEPT
                     !.task.preTokenBalanceMap = pre,
                     !.task.postTokenBalanceMap = post,
                     !.task.solChange = sol.change,
                     !.task.solSymbol = sol.symbol,
                     !.task.allMints =
                         SetOf(BalanceMapKeys(pre) \o BalanceMapKeys(post)),
                     !.task.i = 1]
        IN  IF Abs(sol.change) < SolThreshold
            THEN AnalysisReturn(a1, TRUE, NoTrade)
            ELSE AnalyzeLoop(a1)

\* A variant of analyzeTransaction that analyses every transaction; the
\* code is analyzeTransaction below.
analyzeTransactionUnfiltered(a) ==
    LET r == analyzeTrade(a)
    IN  IF r.task.pc = "done"
        THEN [r EXCEPT !.task.result.isDexTransaction =
                          isDexInteraction(a.task.transaction)]
        ELSE r

analyzeTransaction(a) ==
    IF ~isDexInteraction(a.task.transaction)
    THEN AnalysisReturn(a, FALSE, NoTrade)
    ELSE analyzeTrade(a)

-----------------------------------------------------------------------------
(* TransactionAnalyzer: the turns *)

MintDecimals == 9    \* what a getMint request that succeeds reports

CommitAnalysis(others, a) ==
    /\ tokenCache' = a.tokenCache
    /\ firstInfo' = a.firstInfo
    /\ IF a.task.pc = "done"
       THEN /\ analyses' = others
            /\ analysisDone' = a.task
       ELSE /\ analyses' = others \cup {a.task}
            /\ analysisDone' = Nil
    /\ UNCHANGED <<monitorVars, engineVars, ledgerVars, eventVars>>

AnalyzeTransactionCall ==
    /\ nanalyses < MaxAnalyses
    /\ \E transaction \in TransactionInputs :
          CommitAnalysis(analyses,
              analyzeTransaction(Analyzer(NewAnalysis(transaction, Wallet))))
    /\ nanalyses' = nanalyses + 1
    /\ UNCHANGED lookupFaults

\* getMint settles for a call inside getTokenInfo
GetMintSettles ==
    \E t \in analyses, ok \in BOOLEAN :
        /\ t.pc = "getMint"
        /\ ~ok => lookupFaults < MaxLookupFaults
        /\ lookupFaults' = IF ok THEN lookupFaults ELSE lookupFaults + 1
        /\ CommitAnalysis(analyses \ {t},
                          AfterGetMint(Analyzer(t), ok, MintDecimals))
        /\ UNCHANGED nanalyses

AnalyzerIdle ==
    /\ tokenCache = EmptyCache
    /\ analyses = {}
    /\ nanalyses = 0
    /\ lookupFaults = 0
    /\ analysisDone = Nil
    /\ firstInfo = [m \in AnalyzerMints |-> NoInfo]

\* no notification has been delivered
EventsIdle ==
    /\ units = {}
    /\ nunits = 0
    /\ unitFaults = 0
    /\ unitDone = Nil
    /\ emitted = <<>>

-----------------------------------------------------------------------------
(* TransactionAnalyzer: the properties.  analysisDone is the call of      *)
(* analyzeTransaction that returned in the last turn.                     *)

\* the program ids of the top-level and of the inner instructions
TouchedPrograms(transaction) ==
    Range(transaction.instructions)
    \cup (IF transaction.innerInstructions.present
          THEN UNION { Range(transaction.innerInstructions.sets[s]) :
                          s \in 1..Len(transaction.innerInstructions.sets) }
          ELSE {})

\* C21: isDexInteraction is true if and only if a top-level or an inner
\* instruction of the transaction has a program id of the allow-list; it
\* is false for a null transaction and for one without meta.
C21_DexInteractionIffAllowListed ==
    analysisDone # Nil =>
        LET transaction == analysisDone.transaction
            value == analysisDone.result.isDexTransaction
        IN  /\ ~transaction.present => ~value
            /\ (transaction.present /\ ~transaction.meta) => ~value
            /\ (transaction.present /\ transaction.meta) =>
                  (value <=>
                     TouchedPrograms(transaction) \cap DEX_PROGRAM_IDS # {})

\* a transaction whose only swap program is in an inner instruction
C21_Witness ==
    /\ analysisDone # Nil
    /\ analysisDone.transaction.present
    /\ analysisDone.transaction.meta
    /\ Range(analysisDone.transaction.instructions) \cap DEX_PROGRAM_IDS = {}
    /\ analysisDone.result.isDexTransaction

\* a transaction none of whose instructions is of an allow-listed program
TouchesNoSwapProgram(transaction) ==
    /\ transaction.present
    /\ TouchedPrograms(transaction) \cap DEX_PROGRAM_IDS = {}

\* C22: for a transaction that touches no allow-listed swap program,
\* analyzeTransaction returns isDexTransaction = false and no trade, and
\* it computes no balance difference and looks up no token information,
\* whatever the balances of the transaction are.
C22_NonDexSkipsAnalysis ==
    (analysisDone # Nil /\ TouchesNoSwapProgram(analysisDone.transaction)) =>
        /\ analysisDone.result =
              [isDexTransaction |-> FALSE, detectedTrade |-> NoTrade]
        /\ analysisDone.steps = <<>>
        /\ analysisDone.lookups = <<>>
        /\ tokenCache = analysisDone.cacheBefore

\* the transaction without a swap program whose balances are those of a buy
C22_Witness ==
    /\ analysisDone # Nil
    /\ TouchesNoSwapProgram(analysisDone.transaction)
    /\ analysisDone.transaction.postTokenBalances # <<>>
    /\ nativeSolChange(analysisDone.transaction, Wallet) < 0 - SolThreshold
    /\ ~analysisDone.result.isDexTransaction

\* the wallet's token balances of a transaction, and its mints in
\* discovery order without the wrapped-currency mint
PreBalances(task) ==
    createBalanceMap(task.transaction.preTokenBalances, task.wallet)
PostBalances(task) ==
    createBalanceMap(task.transaction.postTokenBalances, task.wallet)
Discovered(task) ==
    SelectSeq(SetOf(BalanceMapKeys(PreBalances(task))
                    \o BalanceMapKeys(PostBalances(task))),
              LAMBDA m : m # WSOL_MINT)
Delta(task, mint) ==
    UiAmountOrZero(PostBalances(task), mint)
    - UiAmountOrZero(PreBalances(task), mint)

\* the two currency changes of the wallet
NativeDelta(task) == nativeSolChange(task.transaction, task.wallet)
WrappedDelta(task) ==
    UiAmountOrZero(PostBalances(task), WSOL_MINT)
    - UiAmountOrZero(PreBalances(task), WSOL_MINT)
CurrencyDelta(task) ==
    IF Abs(NativeDelta(task)) > SolThreshold THEN NativeDelta(task)
    ELSE WrappedDelta(task)

\* analyzeTrade returned after it looked at the token balances: the
\* transaction is a DEX interaction and the currency change is not dust
Classified(task) ==
    /\ task # Nil
    /\ task.result.isDexTransaction
    /\ Abs(CurrencyDelta(task)) >= SolThreshold

\* the trade the call must report for a mint, but for the token information
ReportsTrade(task, mint) ==
    LET trade == task.result.detectedTrade
    IN  /\ trade # NoTrade
        /\ trade.tokenMint = mint
        /\ trade.type = IF Delta(task, mint) > 0 THEN "buy" ELSE "sell"
        /\ trade.tokenAmount = Abs(Delta(task, mint))
        /\ trade.currencyAmount = Abs(CurrencyDelta(task))

\* the least of a set of positions of Discovered(task), or 0: the loop
\* returns at the first mint that fits
FirstMint(hits) ==
    IF hits = {} THEN 0 ELSE CHOOSE i \in hits : \A j \in hits : i <= j

\* the positions whose mint changed by more than the token dust threshold
Changed(task) ==
    { i \in 1..Len(Discovered(task)) :
        Abs(Delta(task, Discovered(task)[i])) > TokenThreshold }

\* C23: analyzeTrade reports the first mint, in discovery order, whose
\* change exceeds the token dust threshold and whose sign fits the
\* currency change (token up and currency down: buy; token down and
\* currency up: sell), with tokenAmount = |token change| and
\* currencyAmount = |currency change|; it reports nothing when there is
\* no such mint.
C23_FirstConsistentMint ==
    Classified(analysisDone) =>
        LET order == Discovered(analysisDone)
            currency == CurrencyDelta(analysisDone)
            first == FirstMint({ i \in Changed(analysisDone) :
                        \/ Delta(analysisDone, order[i]) > 0 /\ currency < 0
                        \/ Delta(analysisDone, order[i]) < 0 /\ currency > 0 })
        IN  IF first = 0
            THEN analysisDone.result.detectedTrade = NoTrade
            ELSE ReportsTrade(analysisDone, order[first])

\* What does hold: the same with a currency change that is beyond the
\* dust threshold (down by more than it: buy; up by more than it: sell).
C23_FirstMintBeyondThreshold ==
    Classified(analysisDone) =>
        LET order == Discovered(analysisDone)
            currency == CurrencyDelta(analysisDone)
            first == FirstMint({ i \in Changed(analysisDone) :
                        \/ /\ Delta(analysisDone, order[i]) > 0
                           /\ currency < 0 - SolThreshold
                        \/ /\ Delta(analysisDone, order[i]) < 0
                           /\ currency > SolThreshold })
        IN  IF first = 0
            THEN analysisDone.result.detectedTrade = NoTrade
            ELSE ReportsTrade(analysisDone, order[first])

\* C24: analyzeTrade takes the wallet's native-currency change as the
\* currency change when its magnitude exceeds the currency dust threshold
\* and the wallet's wrapped-native token change otherwise; when the
\* magnitude of the chosen change is below the dust threshold it returns
\* no trade, whatever the token changes are, and looks no token up.
C24_CurrencyChoice ==
    (analysisDone # Nil /\ analysisDone.result.isDexTransaction) =>
        LET native == NativeDelta(analysisDone)
            wrapped == WrappedDelta(analysisDone)
            trade == analysisDone.result.detectedTrade
        IN  /\ Abs(native) > SolThreshold =>
                /\ analysisDone.solChange = native
                /\ analysisDone.solSymbol = "SOL"
            /\ Abs(native) <= SolThreshold =>
                /\ analysisDone.solChange = wrapped
                /\ analysisDone.solSymbol = "WSOL"
            /\ Abs(analysisDone.solChange) < SolThreshold =>
                /\ trade = NoTrade
                /\ analysisDone.lookups = <<>>
            /\ trade # NoTrade =>
                /\ trade.currencyAmount = Abs(analysisDone.solChange)
                /\ trade.currencySymbol = analysisDone.solSymbol

\* the native change is the fee alone, so that the wrapped change of 1.0
\* is the currency change of the reported trade
C24_Witness ==
    /\ analysisDone # Nil
    /\ analysisDone.result.isDexTransaction
    /\ NativeDelta(analysisDone) # 0
    /\ Abs(NativeDelta(analysisDone)) <= SolThreshold
    /\ analysisDone.result.detectedTrade # NoTrade
    /\ analysisDone.result.detectedTrade.currencySymbol = "WSOL"
    /\ analysisDone.result.detectedTrade.currencyAmount = DecimalOne

\* the lookups of the call that returned and of the calls still running
Lookups ==
    LET tasks == analyses \cup (IF analysisDone = Nil THEN {} ELSE {analysisDone})
    IN  UNION { { t.lookups[i] : i \in 1..Len(t.lookups) } : t \in tasks }

\* "Fallback token info"
FallbackInfo(mintAddress) ==
    [mint |-> mintAddress, symbol |-> Slice8[mintAddress],
     decimals |-> FallbackDecimals]

\* a failed lookup returns the fallback and the call goes on: a trade
\* reported after it carries the information the last lookup returned
FailedLookupFallsBack ==
    /\ \A l \in Lookups : l.failed => l.info = FallbackInfo(l.mint)
    /\ (analysisDone # Nil /\ analysisDone.result.detectedTrade # NoTrade) =>
          /\ analysisDone.lookups # <<>>
          /\ analysisDone.result.detectedTrade.tokenInfo =
                analysisDone.lookups[Len(analysisDone.lookups)].info
          /\ analysisDone.result.detectedTrade.tokenMint =
                analysisDone.lookups[Len(analysisDone.lookups)].mint

\* C25: a failed token lookup never fails the analysis: the trade is
\* reported with the fallback information (the first 8 characters of the
\* mint as symbol, 6 decimals); and once a lookup of a mint has returned,
\* every later lookup of that mint by the same analyzer returns the same
\* information without a getMint request.
C25_LookupMemoized ==
    /\ FailedLookupFallsBack
    /\ \A l \in Lookups :
          l.known # NoInfo =>
              /\ ~l.remote
              /\ l.info # NoInfo => l.info = l.known

\* What does hold: a failed lookup falls back, and a lookup made after one
\* of the same mint has returned makes no getMint request and returns
\* what the cache holds.
C25_LaterLookupsFromCache ==
    /\ FailedLookupFallsBack
    /\ \A l \in Lookups :
          l.known # NoInfo => (~l.remote /\ l.info # NoInfo)

-----------------------------------------------------------------------------
(* WalletMonitor: log notifications.  The callback handed to onLogs calls *)
(* handleLogEvent without awaiting it (walletMonitor.ts:87-92), so every  *)
(* notification is a call of its own; a call is suspended at the          *)
(* getParsedTransaction request ("fetch") and at the getMint requests of  *)
(* its analysis ("analysis").  The processCopyTrade call it makes is a    *)
(* call of the engine (trades), which goes on by the engine's turns.      *)
(* The operations transform a record h that holds the call (h.unit), the  *)
(* token caches, what was handed to the callbacks and the engine record   *)
(* of the processCopyTrade call made, if any.                             *)

MaxUnits == 2
\* getParsedTransaction and getMint requests of notifications that fail
MaxUnitFaults == 1

\* new PublicKey(walletAddress): the key an address text stands for
KeyOfText == (<<"a">> :> Wallet) @@ (<<"b">> :> "Wallet222")

\* The notifications: the signature of a transaction and the err of its
\* logs.  s2 is no DEX interaction, s3 a buy of X by the wallet of "a",
\* s7 a DEX interaction without a trade, here with failed logs.  The
\* err of the logs and the balances of the fetched transaction are two
\* answers of the RPC service; the code reads the first at line 145 only
\* and never the transaction's meta.err, so s3 also comes with failed
\* logs.
NotificationInputs ==
    { [signature |-> "s2", err |-> FALSE],
      [signature |-> "s3", err |-> FALSE],
      [signature |-> "s7", err |-> TRUE],
      [signature |-> "s3", err |-> TRUE] }

\* how getParsedTransaction settles: with the transaction, with null, or
\* it rejects
FetchInputs == { "found", "null", "throws" }

\* the transaction of a signature
Fetched(signature) ==
    CHOOSE t \in TransactionInputs : t.present /\ t.signature = signature

\* the fields of the monitor a handleLogEvent call reads
Session ==
    [connection |-> connection, transactionAnalyzer |-> transactionAnalyzer,
     copyTradingEngine |-> copyTradingEngine, sessionConfig |-> sessionConfig,
     isRunning |-> isRunning]

\* The record of a handleLogEvent call; sub is the subscription the
\* notification arrives on.
NewUnit(sub, logs) ==
    [id |-> nunits + 1, walletAddress |-> sub.address,
     signature |-> logs.signature, err |-> logs.err,
     pc |-> "run",
     analyzer |-> 0,            \* the analyzer its analysis runs on
     analysis |-> Nil,          \* the analyzeTransaction call it made
     \* bookkeeping for the properties
     outcome |-> "none",        \* how it returned
     fetched |-> "none",        \* how its getParsedTransaction settled
     copied |-> FALSE,          \* it called processCopyTrade
     dispatchedIn |-> Nil,      \* the session when it called it
     delivered |-> Session,     \* the session when the notification came
     resumed |-> Session]       \* the session when the fetch settled

Hand(u) ==
    [unit |-> u, tokenCaches |-> tokenCaches, emitted |-> emitted, engine |-> Nil]

UnitReturn(h, outcome) ==
    [h EXCEPT !.unit.pc = "done", !.unit.outcome = outcome]

\* what the error callback receives from handleLogEvent's catch
ErrorEvent(u) ==
    [kind |-> "error", unit |-> u.id, type |-> "unknown",
     walletAddress |-> u.walletAddress]

\* the WalletLogEvent; of the trade, the fields the properties read
LogEvent(u, detectedTrade) ==
    [kind |-> "log", unit |-> u.id, walletAddress |-> u.walletAddress,
     signature |-> u.signature, err |-> u.err,
     detectedTrade |->
        IF detectedTrade = NoTrade THEN NoTrade
        ELSE [type |-> detectedTrade.type,
              tokenMint |-> detectedTrade.tokenMint,
              originalTxSignature |-> detectedTrade.originalTxSignature]]

\* A variant of the catch block that only logs; the code is
\* HandleLogEventCatch below.
HandleLogEventCatchSilent(h) ==
    UnitReturn(h, "error")

\* the catch block of handleLogEvent: handleError({type: "unknown", ...})
HandleLogEventCatch(h) ==
    UnitReturn([h EXCEPT !.emitted = Append(@, ErrorEvent(h.unit))], "error")

\* A variant without the tests of this.connection and of the analyzer; the
\* code is handleLogEvent below.
handleLogEventUnguarded(h) ==
    [h EXCEPT !.unit.pc = "fetch"]

\* A variant that handles one notification at a time; the code is
\* handleLogEvent below.
handleLogEventOneAtATime(h) ==
    IF units # {} \/ trades # {} THEN UnitReturn(h, "busy")
    ELSE IF connection = 0 \/ transactionAnalyzer = 0
    THEN UnitReturn(h, "unavailable")
    ELSE [h EXCEPT !.unit.pc = "fetch"]

\* handleLogEvent up to the getParsedTransaction request
handleLogEvent(h) ==
    IF h.unit.err /\ connection = 0 THEN UnitReturn(h, "skipped")
    ELSE IF connection = 0 \/ transactionAnalyzer = 0
    THEN UnitReturn(h, "unavailable")
    ELSE [h EXCEPT !.unit.pc = "fetch"]

\* handleLogEvent from "Only forward DEX transactions to the frontend":
\* the processCopyTrade call runs up to its first request, the log event
\* is handed over, and the .then of a processCopyTrade call that has
\* returned by then runs once the handler has returned
\* A variant that forwards every analysed transaction; the code is
\* AfterAnalysis below.
AfterAnalysisForwardsAll(h) ==
    LET result == h.unit.analysis.result
        detectedTrade == result.detectedTrade
        copy == /\ detectedTrade # NoTrade
                /\ copyTradingEngine # 0
                /\ sessionConfig # Nil
        e == processCopyTrade(Engine(
                 [NewTrade(detectedTrade, sessionConfig) EXCEPT !.unit = h.unit.id]))
        logged == Append(h.emitted, LogEvent(h.unit, detectedTrade))
    IN  UnitReturn(
            [h EXCEPT !.unit.copied = copy,
                      !.unit.dispatchedIn = IF copy THEN Session ELSE Nil,
                      !.engine = IF copy THEN e ELSE Nil,
                      !.emitted = IF copy /\ e.task.pc = "done"
                                  THEN Append(logged, CopyTradeEvent(e.task))
                                  ELSE logged],
            "event")

\* A variant in which the .then of a processCopyTrade call that has
\* returned runs before the log event is handed over; the code is
\* AfterAnalysis below.
AfterAnalysisResultFirst(h) ==
    LET result == h.unit.analysis.result
        detectedTrade == result.detectedTrade
        copy == /\ detectedTrade # NoTrade
                /\ copyTradingEngine # 0
                /\ sessionConfig # Nil
        e == processCopyTrade(Engine(
                 [NewTrade(detectedTrade, sessionConfig) EXCEPT !.unit = h.unit.id]))
        first == IF copy /\ e.task.pc = "done"
                 THEN Append(h.emitted, CopyTradeEvent(e.task))
                 ELSE h.emitted
    IN  IF ~result.isDexTransaction THEN UnitReturn(h, "filtered")
        ELSE UnitReturn(
                [h EXCEPT !.unit.copied = copy,
                          !.unit.dispatchedIn = IF copy THEN Session ELSE Nil,
                          !.engine = IF copy THEN e ELSE Nil,
                          !.emitted = Append(first, LogEvent(h.unit, detectedTrade))],
                "event")

AfterAnalysis(h) ==
    LET result == h.unit.analysis.result
        detectedTrade == result.detectedTrade
        copy == /\ detectedTrade # NoTrade
                /\ copyTradingEngine # 0
                /\ sessionConfig # Nil
        e == processCopyTrade(Engine(
                 [NewTrade(detectedTrade, sessionConfig) EXCEPT !.unit = h.unit.id]))
        logged == Append(h.emitted, LogEvent(h.unit, detectedTrade))
    IN  IF ~result.isDexTransaction THEN UnitReturn(h, "filtered")
        ELSE UnitReturn(
                [h EXCEPT !.unit.copied = copy,
                      !.unit.dispatchedIn = IF copy THEN Session ELSE Nil,
                          !.engine = IF copy THEN e ELSE Nil,
                          !.emitted = IF copy /\ e.task.pc = "done"
                                      THEN Append(logged, CopyTradeEvent(e.task))
                                      ELSE logged],
                "event")

\* the analyzer of the call has run up to a getMint request or to its end
AfterAnalyzer(h, a) ==
    LET h1 == [h EXCEPT !.tokenCaches[h.unit.analyzer] = a.tokenCache,
                        !.unit.analysis = a.task]
    IN  IF a.task.pc = "done" THEN AfterAnalysis(h1)
        ELSE [h1 EXCEPT !.unit.pc = "analysis"]

\* the analyzer object a call runs its analysis on
UnitAnalyzer(h, task) ==
    [tokenCache |-> h.tokenCaches[h.unit.analyzer], firstInfo |-> firstInfo,
     task |-> task]

\* handleLogEvent once getParsedTransaction has settled.  With the
\* transaction, this.transactionAnalyzer is read now: on null the call
\* this.transactionAnalyzer.analyzeTransaction raises a TypeError.
\* A variant that reports a transaction that could not be fetched; the
\* code is AfterFetch below.
AfterFetchReportsMissing(h, fetch) ==
    LET h1 == [h EXCEPT !.unit.fetched = fetch, !.unit.resumed = Session,
                        !.unit.analyzer = transactionAnalyzer]
    IN  IF fetch # "found" THEN HandleLogEventCatch(h1)
        ELSE IF transactionAnalyzer = 0 THEN HandleLogEventCatch(h1)
        ELSE AfterAnalyzer(h1,
                analyzeTransaction(UnitAnalyzer(h1,
                    NewAnalysis(Fetched(h.unit.signature),
                                KeyOfText[h.unit.walletAddress]))))

AfterFetch(h, fetch) ==
    LET h1 == [h EXCEPT !.unit.fetched = fetch, !.unit.resumed = Session,
                        !.unit.analyzer = transactionAnalyzer]
    IN  IF fetch = "throws" THEN HandleLogEventCatch(h1)
        ELSE IF fetch = "null" THEN UnitReturn(h1, "dropped")
        ELSE IF transactionAnalyzer = 0 THEN HandleLogEventCatch(h1)
        ELSE AfterAnalyzer(h1,
                analyzeTransaction(UnitAnalyzer(h1,
                    NewAnalysis(Fetched(h.unit.signature),
                                KeyOfText[h.unit.walletAddress]))))

-----------------------------------------------------------------------------
(* WalletMonitor: the turns of the notifications *)

CommitUnit(others, h) ==
    /\ tokenCaches' = h.tokenCaches
    /\ emitted' = h.emitted
    /\ IF h.unit.pc = "done"
       THEN units' = others /\ unitDone' = h.unit
       ELSE units' = others \cup {h.unit} /\ unitDone' = Nil
    /\ IF h.engine = Nil
       THEN UNCHANGED engineVars
       ELSE /\ holdings' = h.engine.holdings
            /\ ledgerFile' = h.engine.ledgerFile
            /\ ntrades' = ntrades + 1
            /\ IF h.engine.task.pc = "done"
               THEN /\ trades' = { [t EXCEPT !.overlapped = TRUE] : t \in trades }
                    /\ tradeDone' = h.engine.task
               ELSE /\ trades' = { [t EXCEPT !.overlapped = TRUE] : t \in trades }
                                   \cup {h.engine.task}
                    /\ tradeDone' = NoTrade
            /\ UNCHANGED tradeFaults
    /\ UNCHANGED <<connection, subscriptionIds, isRunning, monitoredWallets,
                   transactionAnalyzer, copyTradingEngine, sessionConfig,
                   rpcOpen, rpcNextId, calls, ncalls, faults, done>>
    /\ UNCHANGED <<ledgerVars, analyzerVars>>

\* the RPC layer delivers a notification on an open subscription
LogsNotification ==
    /\ nunits < MaxUnits
    /\ \E sub \in rpcOpen, logs \in NotificationInputs :
          CommitUnit(units, handleLogEvent(Hand(NewUnit(sub, logs))))
    /\ nunits' = nunits + 1
    /\ UNCHANGED unitFaults

UnitFault(failed) ==
    /\ unitFaults' = unitFaults + (IF failed THEN 1 ELSE 0)
    /\ unitFaults' <= MaxUnitFaults

\* getParsedTransaction settles for a notification
FetchSettles ==
    \E u \in units :
       /\ u.pc = "fetch"
       /\ \E fetch \in FetchInputs :
             /\ UnitFault(fetch = "throws")
             /\ CommitUnit(units \ {u}, AfterFetch(Hand(u), fetch))
       /\ UNCHANGED nunits

\* getMint settles for the analysis of a notification
UnitGetMintSettles ==
    \E u \in units :
       /\ u.pc = "analysis"
       /\ \E ok \in BOOLEAN :
             /\ UnitFault(~ok)
             /\ CommitUnit(units \ {u},
                   AfterAnalyzer(Hand(u),
                       AfterGetMint(UnitAnalyzer(Hand(u), u.analysis),
                                    ok, MintDecimals)))
       /\ UNCHANGED nunits

-----------------------------------------------------------------------------
(* Properties of the notifications (specifications SpecEvents, SpecStop). *)
(* unitDone is the handleLogEvent call that returned in the last turn of  *)
(* a notification; a step with unitDone' # unitDone is the turn in which  *)
(* the call unitDone' returns.                                            *)

\* what the callbacks received from the call of a notification
LogEventsOf(id) ==
    { i \in 1..Len(emitted) : emitted[i].kind = "log" /\ emitted[i].unit = id }
ErrorEventsOf(id) ==
    { i \in 1..Len(emitted) : emitted[i].kind = "error" /\ emitted[i].unit = id }

\* the monitor's session state
SessionState ==
    <<connection, subscriptionIds, isRunning, monitoredWallets,
      transactionAnalyzer, copyTradingEngine, sessionConfig, rpcOpen>>

\* C26: the subscription callback does not wait for a network call: a
\* notification that arrives while the fetch, the classification or the
\* copy trade of another one is pending is accepted in a turn of its own,
\* which ends with its call suspended at its own getParsedTransaction
\* request and leaves the pending calls and copy trades as they are.
C26_NotificationsDoNotWait ==
    [][ (nunits' = nunits + 1 /\ connection # 0 /\ transactionAnalyzer # 0) =>
            \E u \in units' :
                /\ u.id = nunits'
                /\ u.pc = "fetch"
                /\ units' = units \cup {u}
                /\ trades' = trades
                /\ emitted' = emitted ]_vars

\* the copy trade of a notification for the wallet of "a" waits for its
\* quote, and a later notification for the other wallet has been accepted
\* and waits for its transaction
C26_Witness ==
    \E t \in trades, u \in units :
        /\ t.pc = "quote"
        /\ u.id > t.unit
        /\ u.pc = "fetch"
        /\ u.walletAddress = <<"b">>

\* C27: when getParsedTransaction returns nothing the notification is
\* dropped: the turn hands nothing to the log, error and copy-trade
\* callbacks, starts no copy trade and changes neither the session state
\* nor the ledger; the call is over.
C27_UnfetchableDropped ==
    [][ (unitDone' # Nil /\ unitDone' # unitDone /\ unitDone'.fetched = "null") =>
            /\ emitted' = emitted
            /\ trades' = trades
            /\ ntrades' = ntrades
            /\ holdings' = holdings
            /\ ledgerFile' = ledgerFile
            /\ SessionState' = SessionState
            /\ tokenCaches' = tokenCaches
            /\ \A u \in units' : u.id # unitDone'.id ]_vars

\* a transaction is not found while events have been handed over and a
\* copy trade is in progress
C27_Witness ==
    /\ unitDone # Nil
    /\ unitDone.fetched = "null"
    /\ emitted # <<>>
    /\ trades # {}

\* C28: an error raised while a notification is processed (the fetch
\* rejects, or the classification call raises) is handed to the error
\* callback as one error event with the wallet address, and nothing else
\* happens: isRunning, monitoredWallets, the subscription handles and the
\* open subscriptions are unchanged, and the other pending notifications
\* and copy trades stay as they are.
C28_ErrorIsOneEvent ==
    [][ (/\ unitDone' # Nil /\ unitDone' # unitDone
         /\ \/ unitDone'.fetched = "throws"
            \/ unitDone'.fetched = "found" /\ unitDone'.analysis = Nil) =>
            /\ emitted' = Append(emitted,
                  [kind |-> "error", unit |-> unitDone'.id, type |-> "unknown",
                   walletAddress |-> unitDone'.walletAddress])
            /\ SessionState' = SessionState
            /\ trades' = trades
            /\ \E u \in units : u.id = unitDone'.id /\ units' = units \ {u} ]_vars

\* after the error event of one notification, a later notification has
\* given a log event and started a copy trade, the session running
C28_Witness ==
    /\ isRunning
    /\ \E i \in 1..Len(emitted), j \in 1..Len(emitted) :
          /\ i < j
          /\ emitted[i].kind = "error"
          /\ emitted[j].kind = "log"
          /\ emitted[j].unit > emitted[i].unit
    /\ trades # {}

\* C29: every notification that is delivered while the session is active
\* and whose transaction is fetched gives exactly one log event, whether
\* or not the transaction is a DEX interaction and whether or not a trade
\* is detected.
C29_OneLogEventPerNotification ==
    (/\ unitDone # Nil
     /\ unitDone.delivered.isRunning
     /\ unitDone.fetched = "found") =>
        Cardinality(LogEventsOf(unitDone.id)) = 1

\* What does hold: a fetched transaction gives one log event when it is
\* a DEX interaction and none when it is not.
C29_DexNotificationsLogged ==
    (/\ unitDone # Nil
     /\ unitDone.fetched = "found"
     /\ unitDone.analysis # Nil) =>
        Cardinality(LogEventsOf(unitDone.id)) =
            IF unitDone.analysis.result.isDexTransaction THEN 1 ELSE 0

\* stopMonitoring has cleaned up while the call was waiting for its
\* transaction, which then arrives
StoppedWhileFetching(u) ==
    /\ u # Nil
    /\ u.delivered.isRunning
    /\ u.fetched = "found"
    /\ u.resumed.connection = 0

\* C30: a call started by a notification before stopMonitoring is not
\* aborted: when stopMonitoring completes while the call waits for its
\* transaction, the call still classifies the transaction it fetched and,
\* when a trade is detected and the session had a configuration, executes
\* the copy trade.
C30_SpawnedUnitCompletes ==
    StoppedWhileFetching(unitDone) =>
        /\ unitDone.analysis # Nil
        /\ unitDone.analysis.pc = "done"
        /\ (/\ unitDone.analysis.result.detectedTrade # NoTrade
            /\ unitDone.delivered.sessionConfig # Nil) => unitDone.copied

\* What does hold: such a call ends in the catch block, with an error
\* event and nothing else.
C30_SpawnedUnitEndsInError ==
    StoppedWhileFetching(unitDone) =>
        /\ unitDone.analysis = Nil
        /\ ~unitDone.copied
        /\ LogEventsOf(unitDone.id) = {}
        /\ Cardinality(ErrorEventsOf(unitDone.id)) = 1

-----------------------------------------------------------------------------
(* Properties of a stopped and of a restarted session *)

\* C31: after stopMonitoring has completed and until the next
\* startMonitoring, a notification that arrives (on a subscription whose
\* unsubscribe failed) causes no transaction fetch, no log event, no copy
\* trade and no ledger change: its call returns in the turn of the
\* delivery.
C31_StoppedSessionIgnoresNotifications ==
    [][ (nunits' = nunits + 1 /\ Returned("stop") /\ calls = {}) =>
            /\ units' = units
            /\ unitDone'.id = nunits'
            /\ unitDone'.fetched = "none"
            /\ emitted' = emitted
            /\ trades' = trades
            /\ ntrades' = ntrades
            /\ holdings' = holdings
            /\ ledgerFile' = ledgerFile ]_vars

\* a notification has come on a subscription that stopMonitoring failed
\* to close, after the session had delivered events
C31_Witness ==
    /\ Returned("stop") /\ calls = {}
    /\ unitDone # Nil
    /\ unitDone.delivered.connection = 0
    /\ \E x \in rpcOpen : x.failed /\ x.address = unitDone.walletAddress
    /\ emitted # <<>>

-----------------------------------------------------------------------------
(* Properties of overlapping copy trades of one mint (SpecSameMint) *)

\* the buys that have merged their amount into the ledger and wait for
\* their file write
MergedBuys ==
    { t \in trades : t.detectedTrade.type = "buy" /\ t.pc = "save" }

\* the amount of the ledger's entry for a mint, 0 without an entry
AmountHeld(h, tokenMint) ==
    IF tokenMint \in DOMAIN h THEN BigInt(h[tokenMint].amountLamports).value ELSE 0

-----------------------------------------------------------------------------
(* Properties of overlapping startMonitoring and stopMonitoring calls     *)
(* (specification Spec)                                                   *)

\* a stopMonitoring call was made while a startMonitoring call was in
\* progress, no other call was in progress meanwhile, and both have
\* returned
StopDuringStart ==
    /\ calls = {}
    /\ done # Nil
    /\ Len(done.period) = 2
    /\ done.period[1].op = "start"
    /\ done.period[2].op = "stop"

\* the subscription is recorded in subscriptionIds
Recorded(x) ==
    /\ x.conn = connection
    /\ \E i \in MapLive(subscriptionIds) :
          subscriptionIds[i].key = x.address /\ subscriptionIds[i].value = x.id

\* the open subscriptions of the calls of the period for which no
\* unsubscribe request has failed
OpenOf(period) ==
    { x \in rpcOpen : ~x.failed /\ \E i \in 1..Len(period) : period[i].id = x.by }

\* the list names no address twice
Distinct(addrs) ==
    \A i \in 1..Len(addrs), j \in 1..Len(addrs) : addrs[i] = addrs[j] => i = j

OpenedBy(id) == { x \in rpcOpen : x.by = id }

\* C34: every log subscription opened by startMonitoring is recorded in
\* subscriptionIds, also when the address list names an address more than
\* once, and the number of handles getStatus reports is the number of
\* open subscriptions.
C34_EverySubscriptionRecorded ==
    (Returned("start") /\ done.result = "returned" /\ ~done.overlapped) =>
        /\ \A x \in OpenedBy(done.id) : Recorded(x)
        /\ Cardinality(getStatus.subscriptionIds) = Cardinality(OpenedBy(done.id))

\* What does hold: the same for a list that names no address twice, and
\* for any list the handles reported are those of open subscriptions.
C34_DistinctAddressesRecorded ==
    (Returned("start") /\ done.result = "returned" /\ ~done.overlapped) =>
        /\ Distinct(done.addrs) =>
              /\ \A x \in OpenedBy(done.id) : Recorded(x)
              /\ Cardinality(getStatus.subscriptionIds) =
                    Cardinality(OpenedBy(done.id))
        /\ \A id \in getStatus.subscriptionIds :
              \E x \in OpenedBy(done.id) : x.id = id /\ Recorded(x)

\* the sells of a mint that are in flight and have broadcast their swap
BroadcastSells(tokenMint) ==
    { t \in trades : /\ t.detectedTrade.type = "sell"
                     /\ t.detectedTrade.tokenMint = tokenMint
                     /\ "send" \in Range(t.steps) }

\* C36: two overlapping sells of a mint lead to at most one sell swap
\* being broadcast for the Holding: once one sell of the mint has passed
\* the ledger check and is in flight, a second concurrent sell of the
\* mint does not also request a quote and broadcast a swap.
C36_OneSellBroadcastPerHolding ==
    Cardinality(BroadcastSells("M1")) <= 1

\* C35: a copy trade is executed only with the analyzer, the engine and
\* the configuration of the session in which the notification was
\* delivered: a handleLogEvent call started in an earlier session never
\* calls processCopyTrade with the engine or the configuration of a
\* session started later.
C35_CopyTradeInOwnSession ==
    (unitDone # Nil /\ unitDone.copied) =>
        /\ unitDone.analyzer = unitDone.delivered.transactionAnalyzer
        /\ unitDone.dispatchedIn.copyTradingEngine =
              unitDone.delivered.copyTradingEngine
        /\ unitDone.dispatchedIn.sessionConfig = unitDone.delivered.sessionConfig

\* What does hold: the call uses the session of the delivery when no
\* other session has been started by the time it calls processCopyTrade.
C35_SameSessionUnlessRestarted ==
    (/\ unitDone # Nil /\ unitDone.copied
     /\ unitDone.dispatchedIn.connection = unitDone.delivered.connection) =>
        /\ unitDone.analyzer = unitDone.delivered.transactionAnalyzer
        /\ unitDone.dispatchedIn.copyTradingEngine =
              unitDone.delivered.copyTradingEngine
        /\ unitDone.dispatchedIn.sessionConfig = unitDone.delivered.sessionConfig

-----------------------------------------------------------------------------
(* Properties of the copy trades of notifications (specification          *)
(* SpecPipeline, where every processCopyTrade call is made by a           *)
(* handleLogEvent call).                                                  *)

\* the CopyTradeResults handed to the copy-trade callback for the
\* processCopyTrade call of notification id
CopyTradeResultsOf(id) ==
    { i \in 1..Len(emitted) :
         emitted[i].kind = "copyTrade" /\ emitted[i].unit = id }

\* the processCopyTrade calls of notification id that wait for an
\* external operation
InFlightOf(id) == { t \in trades : t.unit = id }

CopyTradeResults == { i \in 1..Len(emitted) : emitted[i].kind = "copyTrade" }

\* C37: for each detected trade handed to the engine, exactly one
\* CopyTradeResult is delivered to the copy-trade callback once the
\* engine's external calls have returned: a processCopyTrade call is
\* either still waiting for an external operation, with no result
\* delivered, or it has returned and one result has been delivered, never
\* none and never two.
C37_OneResultPerDispatch ==
    /\ \A id \in 1..nunits :
          Cardinality(CopyTradeResultsOf(id)) + Cardinality(InFlightOf(id)) <= 1
    /\ Cardinality(CopyTradeResults) + Cardinality(trades) = ntrades

\* two copy trades have run to their end after external operations, one
\* of them through the confirmation and the file write
C37_Witness ==
    /\ ntrades = 2 /\ trades = {}
    /\ tradeDone # NoTrade /\ tradeDone.unit # 0
    /\ "save" \in Range(tradeDone.steps)
    /\ Cardinality(CopyTradeResults) = 2

\* C38: for a notification in which a trade is detected, the LogEvent of
\* the notification is delivered to the event callback before the
\* CopyTradeResult of its copy trade, which carries the notification's
\* signature as originalTxSignature, is delivered to the copy-trade
\* callback.
C38_LogEventBeforeResult ==
    \A i \in CopyTradeResults :
       \E j \in 1..(i - 1) :
          /\ emitted[j].kind = "log"
          /\ emitted[j].unit = emitted[i].unit
          /\ emitted[j].signature = emitted[i].result.originalTxSignature

\* a processCopyTrade call has returned without an external operation, in
\* the turn in which its notification's log event is handed over, as has
\* the one of an earlier notification
C38_Witness ==
    /\ unitDone # Nil /\ unitDone.copied
    /\ tradeDone # NoTrade /\ tradeDone.unit = unitDone.id
    /\ emitted[Len(emitted)].kind = "copyTrade"
    /\ Cardinality(CopyTradeResults) = 2

-----------------------------------------------------------------------------
(* Properties of the ledger file under the engine (specification          *)
(* SpecEngine, which starts with an empty in-memory ledger and with or    *)
(* without a ledger file of mint M2).                                     *)

\* C40: a Holding that is in the ledger file when the process starts is
\* still in the file after a successful buy of a different mint has been
\* recorded: the write of a buy of M1 that succeeded does not take the
\* record of M2 out of the file.  (A sell of M2 would then find it.)
C40_PersistedHoldingSurvivesBuy ==
    [][ (/\ ledgerFile.exists /\ "M2" \in DOMAIN ledgerFile.holdings
         /\ tradeDone' # NoTrade
         /\ tradeDone'.detectedTrade.type = "buy"
         /\ tradeDone'.detectedTrade.tokenMint = "M1"
         /\ tradeDone'.result.success
         /\ tradeDone'.ledgerFailure = "none") =>
            /\ ledgerFile'.exists
            /\ "M2" \in DOMAIN ledgerFile'.holdings ]_vars

-----------------------------------------------------------------------------
(* The specifications *)

Init ==
    /\ MonitorInit /\ EngineIdle /\ ledgerFile = NoFile /\ LedgerIdle
    /\ AnalyzerIdle /\ EventsIdle
Next ==
    \/ StartMonitoringCall
    \/ StopMonitoringCall
    \/ GetVersionSettles
    \/ RemoveListenerSettles
Spec == Init /\ [][Next]_vars

InitEngine ==
    EngineInit /\ MonitorInit /\ LedgerIdle /\ AnalyzerIdle /\ EventsIdle
NextEngine ==
    \/ ProcessCopyTradeCall
    \/ BalanceSettles
    \/ QuoteSettles
    \/ SwapSettles
    \/ SendSettles
    \/ ConfirmSettles
    \/ SaveSettles
SpecEngine == InitEngine /\ [][NextEngine]_vars

\* the engine under copy trades of one mint
NextSameMint ==
    \/ SameMintTradeCall
    \/ BalanceSettles
    \/ QuoteSettles
    \/ SwapSettles
    \/ SendSettles
    \/ ConfirmSettles
    \/ SaveSettles
SpecSameMint == InitEngine /\ [][NextSameMint]_vars

\* the StateManager under direct calls
InitLedger == LedgerInit /\ MonitorInit /\ AnalyzerIdle /\ EventsIdle
NextLedger ==
    \/ LoadHoldingsCall
    \/ AddOrUpdateHoldingCall
    \/ RemoveHoldingCall
    \/ AccessSettles
    \/ ReadSettles
    \/ WriteSettles
SpecLedger == InitLedger /\ [][NextLedger]_vars

\* the TransactionAnalyzer of one session under analyzeTransaction calls
InitAnalyzer == Init
NextAnalyzer ==
    \/ AnalyzeTransactionCall
    \/ GetMintSettles
SpecAnalyzer == InitAnalyzer /\ [][NextAnalyzer]_vars

\* A session that has been started for two wallets, with or without a
\* configuration: its notifications and the copy trades they start, up
\* to the answer of the quote service (the further turns of a copy trade
\* are those of SpecEngine).
InitEvents ==
    /\ \E config \in StartConfigs : SessionInit(<<"a", ",", " ", "b">>, config)
    /\ EngineIdle /\ ledgerFile = NoFile /\ LedgerIdle
    /\ AnalyzerIdle /\ EventsIdle
NextEvents ==
    \/ LogsNotification
    \/ FetchSettles
    \/ UnitGetMintSettles
    \/ QuoteSettles
SpecEvents == InitEvents /\ [][NextEvents]_vars

\* A session that has been started for one wallet: its notifications and
\* stopMonitoring.
InitStop ==
    /\ \E config \in StartConfigs : SessionInit(<<"a", ",", "!">>, config)
    /\ EngineIdle /\ ledgerFile = NoFile /\ LedgerIdle
    /\ AnalyzerIdle /\ EventsIdle
NextStop ==
    \/ LogsNotification
    \/ FetchSettles
    \/ UnitGetMintSettles
    \/ StopMonitoringCall
    \/ RemoveListenerSettles
SpecStop == InitStop /\ [][NextStop]_vars

\* A session that has been started for one wallet: its notifications and
\* a further startMonitoring or stopMonitoring call.
InitRestart == InitStop
NextRestart ==
    \/ LogsNotification
    \/ FetchSettles
    \/ UnitGetMintSettles
    \/ StartMonitoringCall
    \/ StopMonitoringCall
    \/ GetVersionSettles
    \/ RemoveListenerSettles
SpecRestart == InitRestart /\ [][NextRestart]_vars

\* the configurations of SpecPipeline: the file is parsed and passed on
\* unvalidated (main/index.ts:259-260, 271-280), so the key may be blank
PipelineConfigs == { ConfigData(<<"k">>, 1, 10), ConfigData(<<" ">>, 1, 10) }

\* A session that has been started for one wallet: its notifications and
\* the copy trades they start, each followed to its end.  The detected
\* trades are buys, so no balance is queried.
InitPipeline ==
    /\ \E config \in PipelineConfigs : SessionInit(<<"a", ",", "!">>, config)
    /\ EngineIdle /\ ledgerFile = NoFile /\ LedgerIdle
    /\ AnalyzerIdle /\ EventsIdle
NextPipeline ==
    \/ LogsNotification
    \/ FetchSettles
    \/ UnitGetMintSettles
    \/ QuoteSettles
    \/ SwapSettles
    \/ SendSettles
    \/ ConfirmSettles
    \/ SaveSettles
SpecPipeline == InitPipeline /\ [][NextPipeline]_vars

=============================================================================
